---- MODULE Spec2Model ----
(***************************************************************************)
(* A model of the demonstration scripts of typescript-notebook.           *)
(*                                                                         *)
(* A script is translated statement by statement into a sequence of       *)
(* statement records, one per call the script makes, each with the line   *)
(* of the source it stands for.  A machine runs the statements in the     *)
(* order the event-loop notes of the repository describe: the call stack, *)
(* then the process.nextTick callbacks, then the microtasks, then the     *)
(* macrotask phases (timers, I/O poll, setImmediate).                      *)
(*                                                                         *)
(* Of the event-loop script, section 8 (two 100 ms timers and a           *)
(* Promise.all) is left out; of the I/O script, the sections that read    *)
(* files without blocking and section 1 are modelled.  The scripts are    *)
(* taken as CommonJS modules, as the repository's README configures them. *)
(*                                                                         *)
(* Of the stream script, writeWithBackpressure and compressFile are       *)
(* modelled, each with the Node.js stream it drives: a Writable with its  *)
(* buffer, highWaterMark and 'drain' event, and a pipeline of three       *)
(* streams with its completion callback; NumberStream, with the Readable  *)
(* it extends: its buffer, its 'data' events and its 'end'; and the       *)
(* Readable of sections 1 and 11, whose read() pushes all its chunks at   *)
(* once, read by a 'data' listener and by for await.                       *)
(*                                                                         *)
(* Of the closure script, createCounter, createMemoizedFunction, the two  *)
(* createHandlers functions and createRateLimiter are modelled, each      *)
(* called in any order with any arguments within the bounds.              *)
(*                                                                         *)
(* Of the neverthrow script, divide, the findUser chain, fetchUser and    *)
(* Result.combine are modelled, with the Result methods they use as the   *)
(* neverthrow notes of the repository describe them.                       *)
(*                                                                         *)
(* Of the currying notes, add and addCurried, buildURL, curry2 and curry3 *)
(* are modelled: a curried function is a closure that holds the arguments *)
(* it has been given so far.                                               *)
(*                                                                         *)
(* Of the script on this, the comparison of call, apply and bind on       *)
(* multiply is modelled.                                                   *)
(***************************************************************************)
EXTENDS Integers, Sequences, FiniteSets, TLC

VARIABLES
  stack,     \* call stack: frames [kind, body, pc, promise, env, ret]
  tickQ,     \* process.nextTick queue: callback bodies
  microQ,    \* microtask queue: jobs [r, st, val]
  timers,    \* active timers in registration order: [body, start, ms]
  immQ,      \* setImmediate queue: callback bodies
  immNow,    \* the immediates the current check phase runs
  ioPending, \* file reads in progress: [kind, file, body or p]
  ioDone,    \* file reads that ended, their callbacks not yet run: [req, ok]
  promises,  \* promise id -> [state, value, reactions, left]
  out,       \* console output: [line, to, msg, val]
  now,       \* the clock, in ms
  ticks,     \* how many times the clock moved by itself
  phase,     \* "main", "timers", "poll", "check", "exit"
  phaseNow,  \* the time the current timers phase read
  inMicro,   \* the microtask queue is being drained
  objects    \* the objects of the scripts that run without the event loop:
             \* the fields of each, and the calls made on it with what they
             \* returned

vars == <<stack, tickQ, microQ, timers, immQ, immNow, ioPending, ioDone,
          promises, out, now, ticks, phase, phaseNow, inMicro, objects>>

\* How many times the clock may move by itself during a run.
MaxTicks == 2

----------------------------------------------------------------------------
(* The event-loop script.  A statement is a record: op names the call, line *)
(* its place; p and q name promises (q the one a call returns); body is the *)
(* callback or the function called, itself a sequence of statements.        *)

\* the promise callback registered with setTimeout instead
Section1_TimerForPromise ==
  << [op |-> "log", line |-> 177, msg |-> "1. Synchronous code - Start"],
     [op |-> "setTimeout", line |-> 179, ms |-> 0, body |->
        << [op |-> "log", line |-> 180, msg |-> "2. setTimeout (Macrotask)"] >>],
     [op |-> "setTimeout", line |-> 183, ms |-> 0, body |->
        << [op |-> "log", line |-> 184, msg |-> "3. Promise (Microtask)"] >>],
     [op |-> "log", line |-> 187, msg |-> "4. Synchronous code - End"] >>

Section1 ==
  << [op |-> "log", line |-> 177, msg |-> "1. Synchronous code - Start"],
     [op |-> "setTimeout", line |-> 179, ms |-> 0, body |->
        << [op |-> "log", line |-> 180, msg |-> "2. setTimeout (Macrotask)"] >>],
     [op |-> "promiseResolve", line |-> 183, p |-> "p183"],
     [op |-> "then", line |-> 183, p |-> "p183", q |-> "q183", var |-> "", body |->
        << [op |-> "log", line |-> 184, msg |-> "3. Promise (Microtask)"] >>],
     [op |-> "log", line |-> 187, msg |-> "4. Synchronous code - End"] >>

third == << [op |-> "log", line |-> 211, msg |-> "Inside third"] >>

second ==
  << [op |-> "log", line |-> 205, msg |-> "Inside second"],
     [op |-> "call", line |-> 206, body |-> third],
     [op |-> "log", line |-> 207, msg |-> "Second finished"] >>

first ==
  << [op |-> "log", line |-> 199, msg |-> "Inside first"],
     [op |-> "call", line |-> 200, body |-> second],
     [op |-> "log", line |-> 201, msg |-> "First finished"] >>

Section3 ==
  << [op |-> "log", line |-> 225, msg |-> "Start"],
     [op |-> "setTimeout", line |-> 228, ms |-> 0, body |->
        << [op |-> "log", line |-> 228, msg |-> "setTimeout 1"] >>],
     [op |-> "setImmediate", line |-> 229, body |->
        << [op |-> "log", line |-> 229, msg |-> "setImmediate"] >>],
     [op |-> "promiseResolve", line |-> 232, p |-> "p232"],
     [op |-> "then", line |-> 232, p |-> "p232", q |-> "q232", var |-> "", body |->
        << [op |-> "log", line |-> 232, msg |-> "Promise 1"] >>],
     [op |-> "promiseResolve", line |-> 233, p |-> "p233"],
     [op |-> "then", line |-> 233, p |-> "p233", q |-> "q233", var |-> "", body |->
        << [op |-> "log", line |-> 233, msg |-> "Promise 2"] >>],
     [op |-> "queueMicrotask", line |-> 234, body |->
        << [op |-> "log", line |-> 234, msg |-> "queueMicrotask"] >>],
     [op |-> "setTimeout", line |-> 236, ms |-> 0, body |->
        << [op |-> "log", line |-> 236, msg |-> "setTimeout 2"] >>],
     [op |-> "log", line |-> 238, msg |-> "End"] >>

Section4 ==
  << [op |-> "setTimeout", line |-> 253, ms |-> 0, body |->
        << [op |-> "log", line |-> 254, msg |-> "Timeout 1"],
           [op |-> "promiseResolve", line |-> 256, p |-> "p256"],
           [op |-> "then", line |-> 256, p |-> "p256", q |-> "q256", var |-> "",
            body |->
              << [op |-> "log", line |-> 257, msg |-> "Promise inside Timeout 1"] >>],
           [op |-> "setTimeout", line |-> 260, ms |-> 0, body |->
              << [op |-> "log", line |-> 261, msg |-> "Timeout 2 (nested)"] >>] >>],
     [op |-> "promiseResolve", line |-> 265, p |-> "p265"],
     [op |-> "then", line |-> 265, p |-> "p265", q |-> "q265", var |-> "", body |->
        << [op |-> "log", line |-> 266, msg |-> "Promise 1"],
           [op |-> "setTimeout", line |-> 268, ms |-> 0, body |->
              << [op |-> "log", line |-> 269, msg |-> "Timeout inside Promise 1"] >>] >>] >>

\* queueMicrotask in the place of process.nextTick
Section5_MicrotaskForTick ==
  << [op |-> "log", line |-> 283, msg |-> "Script start"],
     [op |-> "setTimeout", line |-> 285, ms |-> 0, body |->
        << [op |-> "log", line |-> 285, msg |-> "setTimeout"] >>],
     [op |-> "promiseResolve", line |-> 287, p |-> "p287"],
     [op |-> "then", line |-> 287, p |-> "p287", q |-> "q287", var |-> "", body |->
        << [op |-> "log", line |-> 287, msg |-> "Promise"] >>],
     [op |-> "queueMicrotask", line |-> 289, body |->
        << [op |-> "log", line |-> 289, msg |-> "nextTick"] >>],
     [op |-> "log", line |-> 291, msg |-> "Script end"] >>

Section5 ==
  << [op |-> "log", line |-> 283, msg |-> "Script start"],
     [op |-> "setTimeout", line |-> 285, ms |-> 0, body |->
        << [op |-> "log", line |-> 285, msg |-> "setTimeout"] >>],
     [op |-> "promiseResolve", line |-> 287, p |-> "p287"],
     [op |-> "then", line |-> 287, p |-> "p287", q |-> "q287", var |-> "", body |->
        << [op |-> "log", line |-> 287, msg |-> "Promise"] >>],
     [op |-> "nextTick", line |-> 289, body |->
        << [op |-> "log", line |-> 289, msg |-> "nextTick"] >>],
     [op |-> "log", line |-> 291, msg |-> "Script end"] >>

\* the await left out
asyncFunction_NoAwait ==
  << [op |-> "log", line |-> 304, msg |-> "Async start"],
     [op |-> "promiseResolve", line |-> 306, p |-> "p306"],
     [op |-> "log", line |-> 307, msg |-> "After await"],
     [op |-> "return", line |-> 309, val |-> "Done"] >>

asyncFunction ==
  << [op |-> "log", line |-> 304, msg |-> "Async start"],
     [op |-> "promiseResolve", line |-> 306, p |-> "p306"],
     [op |-> "await", line |-> 306, p |-> "p306"],
     [op |-> "log", line |-> 307, msg |-> "After await"],
     [op |-> "return", line |-> 309, val |-> "Done"] >>

Section6 ==
  << [op |-> "log", line |-> 312, msg |-> "Before async"],
     [op |-> "callAsync", line |-> 313, q |-> "p313", body |-> asyncFunction],
     [op |-> "then", line |-> 313, p |-> "p313", q |-> "q313", var |-> "result",
      body |-> << [op |-> "log", line |-> 313, msg |-> "", var |-> "result"] >>],
     [op |-> "log", line |-> 314, msg |-> "After async"] >>

\* each second then() called on the first promise of its chain
Section7_SamePromise ==
  << [op |-> "promiseResolve", line |-> 326, p |-> "p326"],
     [op |-> "then", line |-> 327, p |-> "p326", q |-> "q327", var |-> "", body |->
        << [op |-> "log", line |-> 327, msg |-> "Promise chain 1.1"] >>],
     [op |-> "then", line |-> 328, p |-> "p326", q |-> "q328", var |-> "", body |->
        << [op |-> "log", line |-> 328, msg |-> "Promise chain 1.2"] >>],
     [op |-> "promiseResolve", line |-> 330, p |-> "p330"],
     [op |-> "then", line |-> 331, p |-> "p330", q |-> "q331", var |-> "", body |->
        << [op |-> "log", line |-> 331, msg |-> "Promise chain 2.1"] >>],
     [op |-> "then", line |-> 332, p |-> "p330", q |-> "q332", var |-> "", body |->
        << [op |-> "log", line |-> 332, msg |-> "Promise chain 2.2"] >>] >>

Section7 ==
  << [op |-> "promiseResolve", line |-> 326, p |-> "p326"],
     [op |-> "then", line |-> 327, p |-> "p326", q |-> "q327", var |-> "", body |->
        << [op |-> "log", line |-> 327, msg |-> "Promise chain 1.1"] >>],
     [op |-> "then", line |-> 328, p |-> "q327", q |-> "q328", var |-> "", body |->
        << [op |-> "log", line |-> 328, msg |-> "Promise chain 1.2"] >>],
     [op |-> "promiseResolve", line |-> 330, p |-> "p330"],
     [op |-> "then", line |-> 331, p |-> "p330", q |-> "q331", var |-> "", body |->
        << [op |-> "log", line |-> 331, msg |-> "Promise chain 2.1"] >>],
     [op |-> "then", line |-> 332, p |-> "q331", q |-> "q332", var |-> "", body |->
        << [op |-> "log", line |-> 332, msg |-> "Promise chain 2.2"] >>] >>

blockingOperation ==
  << [op |-> "log", line |-> 381, msg |-> "Blocking start"],
     [op |-> "dateNow", line |-> 384, var |-> "start"],
     [op |-> "whileBusy", line |-> 385, var |-> "start", ms |-> 3000],
     [op |-> "log", line |-> 389, msg |-> "Blocking end"] >>

\* the callback called in the argument list instead of passed
Section9_CallbackCalled(blocking) ==
  << [op |-> "log", line |-> 392, msg |-> "This will be delayed!"],
     [op |-> "setTimeout", line |-> 392, ms |-> 0, body |-> <<>>] >>
  \o (IF blocking
        THEN << [op |-> "call", line |-> 394, body |-> blockingOperation] >>
        ELSE <<>>)
  \o << [op |-> "log", line |-> 396, msg |-> "After blocking call"] >>

\* blocking: the call of line 394 is uncommented
Section9(blocking) ==
  << [op |-> "setTimeout", line |-> 392, ms |-> 0, body |->
        << [op |-> "log", line |-> 392, msg |-> "This will be delayed!"] >>] >>
  \o (IF blocking
        THEN << [op |-> "call", line |-> 394, body |-> blockingOperation] >>
        ELSE <<>>)
  \o << [op |-> "log", line |-> 396, msg |-> "After blocking call"] >>

demonstratePhases ==
  << [op |-> "log", line |-> 403, msg |-> "1. Call Stack"],
     [op |-> "nextTick", line |-> 406, body |->
        << [op |-> "log", line |-> 406, msg |-> "2a. nextTick"] >>],
     [op |-> "queueMicrotask", line |-> 407, body |->
        << [op |-> "log", line |-> 407, msg |-> "2b. Microtask"] >>],
     [op |-> "promiseResolve", line |-> 408, p |-> "p408"],
     [op |-> "then", line |-> 408, p |-> "p408", q |-> "q408", var |-> "", body |->
        << [op |-> "log", line |-> 408, msg |-> "2c. Promise"] >>],
     [op |-> "setTimeout", line |-> 411, ms |-> 0, body |->
        << [op |-> "log", line |-> 411, msg |-> "3a. setTimeout"] >>],
     [op |-> "setImmediate", line |-> 412, body |->
        << [op |-> "log", line |-> 412, msg |-> "3b. setImmediate"] >>],
     [op |-> "log", line |-> 415, msg |-> "4. More sync code"] >>

EventLoopScript(blocking) ==
  Section1
  \o << [op |-> "call", line |-> 214, body |-> first] >>
  \o Section3 \o Section4 \o Section5 \o Section6 \o Section7
  \o Section9(blocking)
  \o << [op |-> "call", line |-> 418, body |-> demonstratePhases] >>

----------------------------------------------------------------------------
(* Promises.  PQ is a record [P |-> the promises, Q |-> the microtask queue]; *)
(* a reaction is a then() callback, the rest of an async function behind an   *)
(* await, or one element of a Promise.all.                                     *)

Pending0 ==
  [state |-> "pending", value |-> "undefined", reactions |-> <<>>, left |-> 0,
   handled |-> FALSE]

PGet(P, p) == IF p \in DOMAIN P THEN P[p] ELSE Pending0

\* p settles, and each of its reactions becomes a microtask; a settled promise
\* stays as it is
Settle(PQ, p, st, val) ==
  IF PGet(PQ.P, p).state = "pending"
    THEN [P |-> (p :> [state |-> st, value |-> val, reactions |-> <<>>, left |-> 0,
                       handled |-> PGet(PQ.P, p).handled])
                 @@ PQ.P,
          Q |-> PQ.Q \o [i \in 1..Len(PGet(PQ.P, p).reactions) |->
                           [r |-> PGet(PQ.P, p).reactions[i], st |-> st, val |-> val]]]
    ELSE PQ

\* r is registered on p; on a settled promise it becomes a microtask at once
React(PQ, p, r) ==
  IF PGet(PQ.P, p).state = "pending"
    THEN [P |-> (p :> [PGet(PQ.P, p) EXCEPT !.reactions = Append(@, r),
                                            !.handled = TRUE]) @@ PQ.P,
          Q |-> PQ.Q]
    ELSE [P |-> (p :> [PGet(PQ.P, p) EXCEPT !.handled = TRUE]) @@ PQ.P,
          Q |-> Append(PQ.Q, [r |-> r, st |-> PGet(PQ.P, p).state,
                              val |-> PGet(PQ.P, p).value])]

----------------------------------------------------------------------------
(* The call stack *)

\* kind: "fn" a function or callback, "block" the block of an if or a catch,
\* "try" the block of a try
Frame(kind, body, promise, env) ==
  [kind |-> kind, body |-> body, pc |-> 1, promise |-> promise, env |-> env,
   ret |-> "undefined"]

Top == stack[Len(stack)]

Cur == Top.body[Top.pc]

\* the next statement to run is a call of op
At(op) == stack # <<>> /\ Top.pc <= Len(Top.body) /\ Cur.op = op

Advance == [stack EXCEPT ![Len(stack)].pc = @ + 1]

Pop == SubSeq(stack, 1, Len(stack) - 1)

Bind(env, var, val) == IF var = "" THEN env ELSE (var :> val) @@ env

\* the microtask queue goes on draining while it holds jobs
StillMicro(s, Q) == IF s = <<>> THEN inMicro /\ Q # <<>> ELSE inMicro

\* console.log and console.error: the message and, if one is given, the value
\* of a variable or of a property of it
DoLog ==
  /\ At("log") \/ At("error")
  /\ out' = Append(out,
       [line |-> Cur.line, msg |-> Cur.msg,
        to |-> IF Cur.op = "error" THEN "stderr" ELSE "stdout",
        val |-> IF "var" \notin DOMAIN Cur THEN <<>>
                ELSE IF "prop" \notin DOMAIN Cur THEN <<Top.env[Cur.var]>>
                ELSE <<[of |-> Top.env[Cur.var], prop |-> Cur.prop]>>])
  /\ stack' = Advance
  /\ UNCHANGED <<objects, tickQ, microQ, timers, immQ, immNow, ioPending, ioDone, promises,
                 now, ticks, phase, phaseNow, inMicro>>

\* setTimeout: a delay under 1 ms is a delay of 1 ms
DoSetTimeout ==
  /\ At("setTimeout")
  /\ timers' = Append(timers, [body |-> Cur.body, start |-> now,
                               ms |-> IF Cur.ms >= 1 THEN Cur.ms ELSE 1])
  /\ stack' = Advance
  /\ UNCHANGED <<objects, tickQ, microQ, immQ, immNow, ioPending, ioDone, promises, out,
                 now, ticks, phase, phaseNow, inMicro>>

DoSetImmediate ==
  /\ At("setImmediate")
  /\ immQ' = Append(immQ, Cur.body)
  /\ stack' = Advance
  /\ UNCHANGED <<objects, tickQ, microQ, timers, immNow, ioPending, ioDone, promises, out,
                 now, ticks, phase, phaseNow, inMicro>>

DoNextTick ==
  /\ At("nextTick")
  /\ tickQ' = Append(tickQ, Cur.body)
  /\ stack' = Advance
  /\ UNCHANGED <<objects, microQ, timers, immQ, immNow, ioPending, ioDone, promises, out,
                 now, ticks, phase, phaseNow, inMicro>>

DoQueueMicrotask ==
  /\ At("queueMicrotask")
  /\ microQ' = Append(microQ, [r |-> [kind |-> "cb", body |-> Cur.body],
                               st |-> "fulfilled", val |-> "undefined"])
  /\ stack' = Advance
  /\ UNCHANGED <<objects, tickQ, timers, immQ, immNow, ioPending, ioDone, promises, out,
                 now, ticks, phase, phaseNow, inMicro>>

\* Promise.resolve(): a fulfilled promise
DoPromiseResolve ==
  /\ At("promiseResolve")
  /\ promises' = Settle([P |-> promises, Q |-> microQ], Cur.p, "fulfilled",
                        "undefined").P
  /\ stack' = Advance
  /\ UNCHANGED <<objects, tickQ, microQ, timers, immQ, immNow, ioPending, ioDone, out,
                 now, ticks, phase, phaseNow, inMicro>>

\* p.then(callback), which returns the promise q
DoThen ==
  /\ At("then")
  /\ LET pq == React([P |-> promises, Q |-> microQ], Cur.p,
                     [kind |-> "then", var |-> Cur.var, body |-> Cur.body,
                      q |-> Cur.q])
     IN  promises' = pq.P /\ microQ' = pq.Q
  /\ stack' = Advance
  /\ UNCHANGED <<objects, tickQ, timers, immQ, immNow, ioPending, ioDone, out,
                 now, ticks, phase, phaseNow, inMicro>>

DoCall ==
  /\ At("call")
  /\ stack' = Append(Advance, Frame("fn", Cur.body, "", <<>>))
  /\ UNCHANGED <<objects, tickQ, microQ, timers, immQ, immNow, ioPending, ioDone, promises,
                 out, now, ticks, phase, phaseNow, inMicro>>

\* the call of an async function, which returns the promise q
DoCallAsync ==
  /\ At("callAsync")
  /\ stack' = Append(Advance, Frame("fn", Cur.body, Cur.q, <<>>))
  /\ UNCHANGED <<objects, tickQ, microQ, timers, immQ, immNow, ioPending, ioDone, promises,
                 out, now, ticks, phase, phaseNow, inMicro>>

\* await p: the rest of the function becomes a reaction of p and the function
\* returns to its caller
DoAwait ==
  /\ At("await")
  /\ LET pq == React([P |-> promises, Q |-> microQ], Cur.p,
                     [kind |-> "await", stmt |-> Cur,
                      frame |-> [Top EXCEPT !.pc = @ + 1]])
     IN  /\ promises' = pq.P
         /\ microQ' = pq.Q
         /\ inMicro' = StillMicro(Pop, pq.Q)
  /\ stack' = Pop
  /\ UNCHANGED <<objects, tickQ, timers, immQ, immNow, ioPending, ioDone, out,
                 now, ticks, phase, phaseNow>>

\* return ends the function the statement is in, from inside any block of it
DoReturn ==
  /\ At("return")
  /\ LET k == CHOOSE i \in 1..Len(stack) :
                /\ stack[i].kind = "fn"
                /\ \A j \in (i + 1)..Len(stack) : stack[j].kind # "fn"
     IN  stack' = [SubSeq(stack, 1, k) EXCEPT
                     ![k].ret = IF "val" \in DOMAIN Cur THEN Cur.val ELSE "undefined",
                     ![k].pc = Len(stack[k].body) + 1]
  /\ UNCHANGED <<objects, tickQ, microQ, timers, immQ, immNow, ioPending, ioDone, promises,
                 out, now, ticks, phase, phaseNow, inMicro>>

\* const start = Date.now()
DoDateNow ==
  /\ At("dateNow")
  /\ stack' = [Advance EXCEPT ![Len(stack)].env = Bind(@, Cur.var, now)]
  /\ UNCHANGED <<objects, tickQ, microQ, timers, immQ, immNow, ioPending, ioDone, promises,
                 out, now, ticks, phase, phaseNow, inMicro>>

\* while (Date.now() - start < ms) {}: the loop spins, and nothing else runs,
\* until the clock has moved on
BusySpin ==
  /\ At("whileBusy")
  /\ now - Top.env[Cur.var] < Cur.ms
  /\ now' = Top.env[Cur.var] + Cur.ms
  /\ UNCHANGED <<objects, stack, tickQ, microQ, timers, immQ, immNow, ioPending, ioDone,
                 promises, out, ticks, phase, phaseNow, inMicro>>

BusyExit ==
  /\ At("whileBusy")
  /\ ~(now - Top.env[Cur.var] < Cur.ms)
  /\ stack' = Advance
  /\ UNCHANGED <<objects, tickQ, microQ, timers, immQ, immNow, ioPending, ioDone, promises,
                 out, now, ticks, phase, phaseNow, inMicro>>

\* a function or a block ends; an async function or a then() callback fulfils
\* its promise with what it returned
FrameEnd ==
  /\ stack # <<>>
  /\ Top.pc > Len(Top.body)
  /\ stack' = Pop
  /\ LET pq == IF Top.promise = ""
                 THEN [P |-> promises, Q |-> microQ]
                 ELSE Settle([P |-> promises, Q |-> microQ], Top.promise,
                             "fulfilled", Top.ret)
     IN  /\ promises' = pq.P
         /\ microQ' = pq.Q
         /\ inMicro' = StillMicro(Pop, pq.Q)
  /\ UNCHANGED <<objects, tickQ, timers, immQ, immNow, ioPending, ioDone, out,
                 now, ticks, phase, phaseNow>>

----------------------------------------------------------------------------
(* The event loop *)

\* the call stack is empty and the next-tick queue may run
TickTurn == stack = <<>> /\ tickQ # <<>> /\ ~inMicro

\* the call stack is empty and the microtask queue may run
MicroTurn == stack = <<>> /\ microQ # <<>> /\ (inMicro \/ tickQ = <<>>)

\* the call stack and both queues are empty: a macrotask may run
MacroTurn == stack = <<>> /\ tickQ = <<>> /\ microQ = <<>>

RunTick ==
  /\ TickTurn
  /\ stack' = <<Frame("fn", Head(tickQ), "", <<>>)>>
  /\ tickQ' = Tail(tickQ)
  /\ UNCHANGED <<objects, microQ, timers, immQ, immNow, ioPending, ioDone, promises, out,
                 now, ticks, phase, phaseNow, inMicro>>

Job == Head(microQ)

\* a queueMicrotask callback
RunCbJob ==
  /\ MicroTurn
  /\ Job.r.kind = "cb"
  /\ stack' = <<Frame("fn", Job.r.body, "", <<>>)>>
  /\ microQ' = Tail(microQ)
  /\ inMicro' = TRUE
  /\ UNCHANGED <<objects, tickQ, timers, immQ, immNow, ioPending, ioDone, promises, out,
                 now, ticks, phase, phaseNow>>

\* a then() callback; a rejection, for which it is no handler, passes to the
\* promise then() returned
RunThenJob ==
  /\ MicroTurn
  /\ Job.r.kind = "then"
  /\ IF Job.st = "fulfilled"
       THEN /\ stack' = <<Frame("fn", Job.r.body, Job.r.q,
                                Bind(<<>>, Job.r.var, Job.val))>>
            /\ microQ' = Tail(microQ)
            /\ inMicro' = TRUE
            /\ UNCHANGED promises
       ELSE LET pq == Settle([P |-> promises, Q |-> Tail(microQ)], Job.r.q,
                             Job.st, Job.val)
            IN  /\ promises' = pq.P
                /\ microQ' = pq.Q
                /\ inMicro' = (pq.Q # <<>>)
                /\ UNCHANGED stack
  /\ UNCHANGED <<objects, tickQ, timers, immQ, immNow, ioPending, ioDone, out,
                 now, ticks, phase, phaseNow>>

\* the rest of an async function, with the awaited value in the variable, or
\* in the variables of an array pattern; a rejection of the awaited promise is
\* thrown at the await and, not caught, rejects the function's promise
RunAwaitJob ==
  /\ MicroTurn
  /\ Job.r.kind = "await"
  /\ LET f == Job.r.frame
         st == Job.r.stmt
         env == IF "vars" \in DOMAIN st
                  THEN [v \in {st.vars[i] : i \in 1..Len(st.vars)} |->
                          Job.val[CHOOSE i \in 1..Len(st.vars) : st.vars[i] = v]]
                       @@ f.env
                  ELSE IF "var" \in DOMAIN st THEN Bind(f.env, st.var, Job.val)
                  ELSE f.env
     IN  IF Job.st = "fulfilled"
           THEN /\ stack' = <<[f EXCEPT !.env = env]>>
                /\ microQ' = Tail(microQ)
                /\ inMicro' = TRUE
                /\ UNCHANGED promises
           ELSE LET pq == Settle([P |-> promises, Q |-> Tail(microQ)], f.promise,
                                 Job.st, Job.val)
                IN  /\ promises' = pq.P
                    /\ microQ' = pq.Q
                    /\ inMicro' = (pq.Q # <<>>)
                    /\ UNCHANGED stack
  /\ UNCHANGED <<objects, tickQ, timers, immQ, immNow, ioPending, ioDone, out,
                 now, ticks, phase, phaseNow>>

\* the timers phase runs the timers that have expired at the time the phase
\* read, those of one delay in registration order, the earliest expiry first
TimerDue(i) ==
  /\ \A j \in 1..(i - 1) : timers[j].ms # timers[i].ms
  /\ timers[i].start + timers[i].ms <= phaseNow
  /\ \A j \in 1..Len(timers) :
       timers[j].start + timers[j].ms >= timers[i].start + timers[i].ms

\* the script and its microtasks are done: the loop starts, with the timers
StartLoop ==
  /\ phase = "main"
  /\ MacroTurn
  /\ phase' = "timers"
  /\ phaseNow' = now
  /\ UNCHANGED <<objects, stack, tickQ, microQ, timers, immQ, immNow, ioPending, ioDone,
                 promises, out, now, ticks, inMicro>>

RunTimer ==
  /\ phase = "timers"
  /\ MacroTurn
  /\ \E i \in 1..Len(timers) :
       /\ TimerDue(i)
       /\ stack' = <<Frame("fn", timers[i].body, "", <<>>)>>
       /\ timers' = SubSeq(timers, 1, i - 1) \o SubSeq(timers, i + 1, Len(timers))
  /\ UNCHANGED <<objects, tickQ, microQ, immQ, immNow, ioPending, ioDone, promises, out,
                 now, ticks, phase, phaseNow, inMicro>>

TimersDone ==
  /\ phase = "timers"
  /\ MacroTurn
  /\ ~\E i \in 1..Len(timers) : TimerDue(i)
  /\ phase' = "poll"
  /\ UNCHANGED <<objects, stack, tickQ, microQ, timers, immQ, immNow, ioPending, ioDone,
                 promises, out, now, ticks, phaseNow, inMicro>>

NextExpiry ==
  IF timers = <<>> THEN now
  ELSE CHOOSE e \in {timers[i].start + timers[i].ms : i \in 1..Len(timers)} :
         \A j \in 1..Len(timers) : timers[j].start + timers[j].ms >= e

\* the poll phase waits, for the next timer or for a file read to end, only if
\* no immediate is queued
PollWait ==
  /\ phase = "poll"
  /\ MacroTurn
  /\ ioDone = <<>>
  /\ immQ = <<>>
  /\ timers # <<>>
  /\ now < NextExpiry
  /\ now' = NextExpiry
  /\ UNCHANGED <<objects, stack, tickQ, microQ, timers, immQ, immNow, ioPending, ioDone,
                 promises, out, ticks, phase, phaseNow, inMicro>>

PollDone ==
  /\ phase = "poll"
  /\ MacroTurn
  /\ ioDone = <<>>
  /\ IF immQ # <<>> THEN TRUE
     ELSE IF timers # <<>> THEN now >= NextExpiry
     ELSE ioPending = <<>>
  /\ phase' = "check"
  /\ immNow' = immQ
  /\ immQ' = <<>>
  /\ UNCHANGED <<objects, stack, tickQ, microQ, timers, ioPending, ioDone, promises, out,
                 now, ticks, phaseNow, inMicro>>

RunImmediate ==
  /\ phase = "check"
  /\ MacroTurn
  /\ immNow # <<>>
  /\ stack' = <<Frame("fn", Head(immNow), "", <<>>)>>
  /\ immNow' = Tail(immNow)
  /\ UNCHANGED <<objects, tickQ, microQ, timers, immQ, ioPending, ioDone, promises, out,
                 now, ticks, phase, phaseNow, inMicro>>

\* the loop goes round while a timer, an immediate or a file read is left
CheckDone ==
  /\ phase = "check"
  /\ MacroTurn
  /\ immNow = <<>>
  /\ IF timers # <<>> \/ immQ # <<>> \/ ioPending # <<>> \/ ioDone # <<>>
       THEN phase' = "timers" /\ phaseNow' = now
       ELSE phase' = "exit" /\ UNCHANGED phaseNow
  /\ UNCHANGED <<objects, stack, tickQ, microQ, timers, immQ, immNow, ioPending, ioDone,
                 promises, out, now, ticks, inMicro>>

\* time passes while the program runs
Tick ==
  /\ phase # "exit"
  /\ ticks < MaxTicks
  /\ now' = now + 1
  /\ ticks' = ticks + 1
  /\ UNCHANGED <<objects, stack, tickQ, microQ, timers, immQ, immNow, ioPending, ioDone,
                 promises, out, phase, phaseNow, inMicro>>

\* the event-loop script starts, with or without the call of line 394
Init ==
  /\ \E blocking \in BOOLEAN :
       stack = <<Frame("fn", EventLoopScript(blocking), "", <<>>)>>
  /\ tickQ = <<>>
  /\ microQ = <<>>
  /\ timers = <<>>
  /\ immQ = <<>>
  /\ immNow = <<>>
  /\ ioPending = <<>>
  /\ ioDone = <<>>
  /\ promises = <<>>
  /\ out = <<>>
  /\ now = 0
  /\ ticks = 0
  /\ phase = "main"
  /\ phaseNow = 0
  /\ inMicro = FALSE
  /\ objects = <<>>

Next ==
  \/ DoLog \/ DoSetTimeout \/ DoSetImmediate \/ DoNextTick \/ DoQueueMicrotask
  \/ DoPromiseResolve \/ DoThen \/ DoCall \/ DoCallAsync \/ DoAwait \/ DoReturn
  \/ DoDateNow \/ BusySpin \/ BusyExit \/ FrameEnd
  \/ RunTick \/ RunCbJob \/ RunThenJob \/ RunAwaitJob
  \/ StartLoop \/ RunTimer \/ TimersDone \/ PollWait \/ PollDone
  \/ RunImmediate \/ CheckDone \/ Tick

Spec == Init /\ [][Next]_vars

----------------------------------------------------------------------------
(* Properties of the event-loop script *)

Printed(l) == \E i \in 1..Len(out) : out[i].line = l

Pos(l) == CHOOSE i \in 1..Len(out) : out[i].line = l

\* the line of l is printed only after the line of k
Before(k, l) == Printed(l) => Printed(k) /\ Pos(k) < Pos(l)

\* each line of ls is printed only after the one before it
InOrder(ls) == \A i \in 1..(Len(ls) - 1) : Before(ls[i], ls[i + 1])

\* C1: section 1 prints 'Start', 'End', then the promise callback, then the
\* timer callback: the synchronous code of the script (to its last statement,
\* line 415) finishes first, and the timer registered first runs after the
\* microtask.
C1_MicrotaskBeforeTimer ==
  /\ InOrder(<<177, 187, 184, 180>>)
  /\ Before(415, 184)

C1_Witness == Printed(180)

\* C2: callbacks registered in one synchronous run execute in the order
\* synchronous code, nextTick, microtasks in registration order, setTimeout 0
\* callbacks in registration order, setImmediate: the orders the comments of
\* demonstratePhases and of section 3 give.
C2_PriorityOrder ==
  /\ InOrder(<<403, 415, 406, 407, 408, 411, 412>>)
  /\ InOrder(<<225, 238, 232, 233, 234, 228, 236, 229>>)

\* C3: section 5 prints 'Script start', 'Script end', 'nextTick', 'Promise',
\* 'setTimeout', and a nextTick callback registered by the script runs before
\* every microtask the script registered.
C3_NextTickFirst ==
  /\ InOrder(<<283, 291, 289, 287, 285>>)
  /\ \A t \in {289, 406} :
       \A m \in {184, 232, 233, 234, 266, 287, 307, 327, 331, 407, 408} :
         Before(t, m)

C3_Witness == Printed(285)

\* C4: asyncFunction() runs to its first await inside the call, the code after
\* the await runs after the caller's synchronous code, and the then() callback
\* of the returned promise after that: 'Before async', 'Async start',
\* 'After async', 'After await', 'Done'.
C4_AsyncAwaitOrder ==
  /\ InOrder(<<312, 304, 314, 307, 313>>)
  /\ Before(415, 307)
  /\ \A i \in 1..Len(out) : out[i].line = 313 => out[i].val = <<"Done">>

C4_Witness == Printed(313)

\* C5: the timer callback of line 392 runs after 'After blocking call' and
\* after the last synchronous statement of the script and, when
\* blockingOperation() is called, after 'Blocking end'.
C5_SyncBlocksTimers ==
  /\ Before(396, 392)
  /\ Before(415, 392)
  /\ Printed(381) => Before(389, 392)

C5_Witness == Printed(389) /\ Printed(392)

\* C22: section 4 prints 'Promise 1', 'Timeout 1', 'Promise inside Timeout 1',
\* 'Timeout 2 (nested)', 'Timeout inside Promise 1', in this order: the order
\* the comment of lines 270-275 gives.
C22_NestedOrder == InOrder(<<266, 254, 257, 261, 269>>)

\* C23: section 7 prints 'Promise chain 1.1', 'Promise chain 2.1',
\* 'Promise chain 1.2', 'Promise chain 2.2', in this order, and the callback
\* of the second then() of a chain is a microtask only once the callback of
\* its first then() has printed.
C23_ChainsInLockStep ==
  /\ InOrder(<<327, 331, 328, 332>>)
  /\ \A i \in 1..Len(microQ) :
       /\ (microQ[i].r.kind = "then" /\ microQ[i].r.q = "q328") => Printed(327)
       /\ (microQ[i].r.kind = "then" /\ microQ[i].r.q = "q332") => Printed(331)

C23_Witness == Printed(332)

----------------------------------------------------------------------------
(* The blocking and non-blocking I/O script *)

IoSection1_EndInTry ==
  << [op |-> "log", line |-> 9, msg |-> "1. Start"],
     [op |-> "try", line |-> 11, var |-> "err",
      body |->
        << [op |-> "readFileSync", line |-> 13, file |-> "./package.json",
            var |-> "data"],
           [op |-> "log", line |-> 14, msg |-> "2. File read (blocking):",
            var |-> "data", prop |-> "substring(0, 50)"],
           [op |-> "log", line |-> 19, msg |-> "3. End"] >>,
      handler |->
        << [op |-> "error", line |-> 16, msg |-> "Error:", var |-> "err"] >>] >>

IoSection1 ==
  << [op |-> "log", line |-> 9, msg |-> "1. Start"],
     [op |-> "try", line |-> 11, var |-> "err",
      body |->
        << [op |-> "readFileSync", line |-> 13, file |-> "./package.json",
            var |-> "data"],
           [op |-> "log", line |-> 14, msg |-> "2. File read (blocking):",
            var |-> "data", prop |-> "substring(0, 50)"] >>,
      handler |->
        << [op |-> "error", line |-> 16, msg |-> "Error:", var |-> "err"] >>],
     [op |-> "log", line |-> 19, msg |-> "3. End"] >>

IoSection2 ==
  << [op |-> "log", line |-> 29, msg |-> "1. Start"],
     [op |-> "readFile", line |-> 32, file |-> "./package.json", body |->
        << [op |-> "if", line |-> 33, var |-> "err", body |->
              << [op |-> "error", line |-> 34, msg |-> "Error:", var |-> "err"],
                 [op |-> "return", line |-> 35] >>],
           [op |-> "log", line |-> 37, msg |-> "3. File read (non-blocking):",
            var |-> "data", prop |-> "substring(0, 50)"] >>],
     [op |-> "log", line |-> 40, msg |-> "2. End"] >>

readFileNonBlocking ==
  << [op |-> "log", line |-> 51, msg |-> "1. Start"],
     [op |-> "readFileAsync", line |-> 54, file |-> "./package.json", p |-> "promise"],
     [op |-> "log", line |-> 56, msg |-> "2. Reading initiated"],
     [op |-> "await", line |-> 58, p |-> "promise", var |-> "data"],
     [op |-> "log", line |-> 59, msg |-> "3. File read:", var |-> "data",
      prop |-> "substring(0, 50)"],
     [op |-> "log", line |-> 61, msg |-> "4. End"] >>

multipleNonBlockingSequential ==
  << [op |-> "log", line |-> 114, msg |-> "Start non-blocking sequential"],
     [op |-> "readFileAsync", line |-> 116, file |-> "./package.json", p |-> "p116"],
     [op |-> "await", line |-> 116, p |-> "p116", var |-> "file1"],
     [op |-> "log", line |-> 117, msg |-> "File 1 size:", var |-> "file1",
      prop |-> "length"],
     [op |-> "readFileAsync", line |-> 119, file |-> "./tsconfig.json", p |-> "p119"],
     [op |-> "await", line |-> 119, p |-> "p119", var |-> "file2"],
     [op |-> "log", line |-> 120, msg |-> "File 2 size:", var |-> "file2",
      prop |-> "length"],
     [op |-> "readFileAsync", line |-> 122, file |-> "./README.md", p |-> "p122"],
     [op |-> "await", line |-> 122, p |-> "p122", var |-> "file3"],
     [op |-> "log", line |-> 123, msg |-> "File 3 size:", var |-> "file3",
      prop |-> "length"],
     [op |-> "log", line |-> 125, msg |-> "End non-blocking sequential"] >>

multipleNonBlockingParallel_Swapped ==
  << [op |-> "log", line |-> 136, msg |-> "Start non-blocking parallel"],
     [op |-> "readFileAsync", line |-> 140, file |-> "./package.json", p |-> "p140"],
     [op |-> "readFileAsync", line |-> 141, file |-> "./tsconfig.json", p |-> "p141"],
     [op |-> "readFileAsync", line |-> 142, file |-> "./README.md", p |-> "p142"],
     [op |-> "promiseAll", line |-> 139, ps |-> <<"p140", "p141", "p142">>,
      q |-> "p139"],
     [op |-> "await", line |-> 139, p |-> "p139",
      vars |-> <<"file3", "file2", "file1">>],
     [op |-> "log", line |-> 145, msg |-> "File 1 size:", var |-> "file1",
      prop |-> "length"],
     [op |-> "log", line |-> 146, msg |-> "File 2 size:", var |-> "file2",
      prop |-> "length"],
     [op |-> "log", line |-> 147, msg |-> "File 3 size:", var |-> "file3",
      prop |-> "length"],
     [op |-> "log", line |-> 149, msg |-> "End non-blocking parallel"] >>

multipleNonBlockingParallel ==
  << [op |-> "log", line |-> 136, msg |-> "Start non-blocking parallel"],
     [op |-> "readFileAsync", line |-> 140, file |-> "./package.json", p |-> "p140"],
     [op |-> "readFileAsync", line |-> 141, file |-> "./tsconfig.json", p |-> "p141"],
     [op |-> "readFileAsync", line |-> 142, file |-> "./README.md", p |-> "p142"],
     [op |-> "promiseAll", line |-> 139, ps |-> <<"p140", "p141", "p142">>,
      q |-> "p139"],
     [op |-> "await", line |-> 139, p |-> "p139",
      vars |-> <<"file1", "file2", "file3">>],
     [op |-> "log", line |-> 145, msg |-> "File 1 size:", var |-> "file1",
      prop |-> "length"],
     [op |-> "log", line |-> 146, msg |-> "File 2 size:", var |-> "file2",
      prop |-> "length"],
     [op |-> "log", line |-> 147, msg |-> "File 3 size:", var |-> "file3",
      prop |-> "length"],
     [op |-> "log", line |-> 149, msg |-> "End non-blocking parallel"] >>

\* uncommented: the lines, of 130 and 154, whose calls are uncommented
IoScript(uncommented) ==
  IoSection1 \o IoSection2
  \o << [op |-> "callAsync", line |-> 64, q |-> "p64", body |-> readFileNonBlocking] >>
  \o (IF 130 \in uncommented
        THEN << [op |-> "callAsync", line |-> 130, q |-> "p130",
                 body |-> multipleNonBlockingSequential] >>
        ELSE <<>>)
  \o (IF 154 \in uncommented
        THEN << [op |-> "callAsync", line |-> 154, q |-> "p154",
                 body |-> multipleNonBlockingParallel] >>
        ELSE <<>>)

\* try { body } catch (var) { handler }
DoTry ==
  /\ At("try")
  /\ stack' = Append(Advance,
                     Frame("try", Cur.body, "", Top.env)
                       @@ [var |-> Cur.var, handler |-> Cur.handler])
  /\ UNCHANGED <<objects, tickQ, microQ, timers, immQ, immNow, ioPending, ioDone, promises,
                 out, now, ticks, phase, phaseNow, inMicro>>

\* readFileSync returns the content of the file, or throws; what it throws
\* goes to the catch block of the try block the call is in
DoReadFileSync ==
  /\ At("readFileSync")
  /\ Top.kind = "try"
  /\ \E ok \in BOOLEAN :
       stack' = IF ok
                  THEN [Advance EXCEPT ![Len(stack)].env =
                          Bind(@, Cur.var, [content |-> Cur.file])]
                  ELSE Append(Pop, Frame("block", Top.handler, "",
                                         Bind(Top.env, Top.var, "ENOENT")))
  /\ UNCHANGED <<objects, tickQ, microQ, timers, immQ, immNow, ioPending, ioDone, promises,
                 out, now, ticks, phase, phaseNow, inMicro>>

\* readFile(file, callback) starts the read and returns
DoReadFile_CallsBack ==
  /\ At("readFile")
  /\ stack' = Append(Advance,
                     Frame("fn", Cur.body, "",
                           ("err" :> "null") @@ ("data" :> [content |-> Cur.file])))
  /\ UNCHANGED <<objects, tickQ, microQ, timers, immQ, immNow, ioPending, ioDone, promises,
                 out, now, ticks, phase, phaseNow, inMicro>>

DoReadFile ==
  /\ At("readFile")
  /\ ioPending' = Append(ioPending, [kind |-> "callback", file |-> Cur.file,
                                     body |-> Cur.body])
  /\ stack' = Advance
  /\ UNCHANGED <<objects, tickQ, microQ, timers, immQ, immNow, ioDone, promises, out,
                 now, ticks, phase, phaseNow, inMicro>>

\* readFileAsync(file) starts the read and returns the promise p
DoReadFileAsync ==
  /\ At("readFileAsync")
  /\ ioPending' = Append(ioPending, [kind |-> "promise", file |-> Cur.file,
                                     p |-> Cur.p])
  /\ stack' = Advance
  /\ UNCHANGED <<objects, tickQ, microQ, timers, immQ, immNow, ioDone, promises, out,
                 now, ticks, phase, phaseNow, inMicro>>

\* if (var) { body }
DoIf ==
  /\ At("if")
  /\ stack' = IF Top.env[Cur.var] # "null"
                THEN Append(Advance, Frame("block", Cur.body, "", Top.env))
                ELSE Advance
  /\ UNCHANGED <<objects, tickQ, microQ, timers, immQ, immNow, ioPending, ioDone, promises,
                 out, now, ticks, phase, phaseNow, inMicro>>

\* Promise.all(ps): a reaction on each element, which keeps the element's place
RECURSIVE RegisterAll(_, _, _, _)
RegisterAll(PQ, ps, q, i) ==
  IF i > Len(ps) THEN PQ
  ELSE RegisterAll(React(PQ, ps[i], [kind |-> "all", q |-> q, idx |-> i]),
                   ps, q, i + 1)

DoPromiseAll ==
  /\ At("promiseAll")
  /\ LET pq == RegisterAll(
                 [P |-> (Cur.q :> [Pending0 EXCEPT
                                     !.value = [i \in 1..Len(Cur.ps) |-> "undefined"],
                                     !.left = Len(Cur.ps)]) @@ promises,
                  Q |-> microQ],
                 Cur.ps, Cur.q, 1)
     IN  promises' = pq.P /\ microQ' = pq.Q
  /\ stack' = Advance
  /\ UNCHANGED <<objects, tickQ, timers, immQ, immNow, ioPending, ioDone, out,
                 now, ticks, phase, phaseNow, inMicro>>

\* an element of a Promise.all settled: its value goes to its place in the
\* result and the last value to arrive fulfils the result; a rejection rejects it
RunAllJob ==
  /\ MicroTurn
  /\ Job.r.kind = "all"
  /\ LET q == Job.r.q
         rec == PGet(promises, q)
         vals == [rec.value EXCEPT ![Job.r.idx] = Job.val]
         rest == [P |-> promises, Q |-> Tail(microQ)]
         pq == IF rec.state # "pending" THEN rest
               ELSE IF Job.st # "fulfilled" THEN Settle(rest, q, Job.st, Job.val)
               ELSE IF rec.left > 1
                 THEN [P |-> (q :> [rec EXCEPT !.value = vals, !.left = @ - 1])
                              @@ promises,
                       Q |-> Tail(microQ)]
               ELSE Settle(rest, q, "fulfilled", vals)
     IN  /\ promises' = pq.P
         /\ microQ' = pq.Q
         /\ inMicro' = (pq.Q # <<>>)
  /\ UNCHANGED <<objects, stack, tickQ, timers, immQ, immNow, ioPending, ioDone, out,
                 now, ticks, phase, phaseNow>>

\* a file read ends, well or not, at any time after it started
IoComplete ==
  /\ phase # "exit"
  /\ \E i \in 1..Len(ioPending), ok \in BOOLEAN :
       /\ ioDone' = Append(ioDone, [req |-> ioPending[i], ok |-> ok])
       /\ ioPending' = SubSeq(ioPending, 1, i - 1)
                       \o SubSeq(ioPending, i + 1, Len(ioPending))
  /\ UNCHANGED <<objects, stack, tickQ, microQ, timers, immQ, immNow, promises, out,
                 now, ticks, phase, phaseNow, inMicro>>

\* the poll phase runs the callback of a read that ended, with (null, data) or
\* with (err), or settles its promise
RunIoCallback ==
  /\ phase = "poll"
  /\ MacroTurn
  /\ ioDone # <<>>
  /\ LET d == Head(ioDone)
         pq == IF d.req.kind = "callback" THEN [P |-> promises, Q |-> microQ]
               ELSE IF d.ok
                 THEN Settle([P |-> promises, Q |-> microQ], d.req.p, "fulfilled",
                             [content |-> d.req.file])
               ELSE Settle([P |-> promises, Q |-> microQ], d.req.p, "rejected",
                           "ENOENT")
     IN  /\ stack' = IF d.req.kind = "callback"
                       THEN <<Frame("fn", d.req.body, "",
                                    IF d.ok
                                      THEN ("err" :> "null")
                                           @@ ("data" :> [content |-> d.req.file])
                                      ELSE ("err" :> "ENOENT")
                                           @@ ("data" :> "undefined"))>>
                       ELSE stack
         /\ promises' = pq.P
         /\ microQ' = pq.Q
  /\ ioDone' = Tail(ioDone)
  /\ UNCHANGED <<objects, tickQ, timers, immQ, immNow, ioPending, out,
                 now, ticks, phase, phaseNow, inMicro>>

\* a promise was rejected and nothing handles the rejection: once the
\* microtasks are done the process reports it, and a Node.js that takes the
\* rejection for an uncaught exception ends there
UnhandledRejection ==
  /\ phase # "exit"
  /\ stack = <<>> /\ tickQ = <<>> /\ microQ = <<>>
  /\ \E p \in DOMAIN promises :
       promises[p].state = "rejected" /\ ~promises[p].handled
  /\ phase' = "exit"
  /\ UNCHANGED <<objects, stack, tickQ, microQ, timers, immQ, immNow, ioPending, ioDone,
                 promises, out, now, ticks, phaseNow, inMicro>>

\* the I/O script starts, as it is, or with the call of line 130 or the call
\* of line 154 uncommented
InitIO ==
  /\ \E uncommented \in {{}, {130}, {154}} :
       stack = <<Frame("fn", IoScript(uncommented), "", <<>>)>>
  /\ tickQ = <<>>
  /\ microQ = <<>>
  /\ timers = <<>>
  /\ immQ = <<>>
  /\ immNow = <<>>
  /\ ioPending = <<>>
  /\ ioDone = <<>>
  /\ promises = <<>>
  /\ out = <<>>
  /\ now = 0
  /\ ticks = 0
  /\ phase = "main"
  /\ phaseNow = 0
  /\ inMicro = FALSE
  /\ objects = <<>>

NextIO ==
  \/ DoLog \/ DoTry \/ DoReadFileSync \/ DoReadFile \/ DoReadFileAsync \/ DoIf
  \/ DoCallAsync \/ DoAwait \/ DoReturn \/ DoPromiseAll \/ FrameEnd
  \/ RunAwaitJob \/ RunAllJob \/ IoComplete \/ RunIoCallback \/ UnhandledRejection
  \/ StartLoop \/ TimersDone \/ PollDone \/ CheckDone

SpecIO == InitIO /\ [][NextIO]_vars

----------------------------------------------------------------------------
(* Properties of the I/O script *)

\* the line of l is printed with the value val
PrintedWith(l, val) == \A i \in 1..Len(out) : out[i].line = l => out[i].val = <<val>>

\* C6: with the callback-style readFile the call returns at once and the
\* output order is "1. Start", "2. End", "3. File read (non-blocking)": the
\* callback, whichever of its two branches it takes, never runs before the
\* statement after the readFile call, nor before the rest of the statements
\* the script runs synchronously
C6_CallbackAfterSync ==
  /\ InOrder(<<29, 40, 37>>)
  /\ \A c \in {34, 37} : Before(40, c) /\ Before(51, c) /\ Before(56, c)
  /\ PrintedWith(37, [of |-> [content |-> "./package.json"],
                      prop |-> "substring(0, 50)"])

C6_Witness == Printed(37)

InFlight(p) ==
  \E i \in 1..Len(ioPending) : ioPending[i].kind = "promise" /\ ioPending[i].p = p

\* the read behind promise p has completed: the poll phase has delivered its
\* outcome and the promise is settled
Completed(p) == PGet(promises, p).state # "pending"

Started(p) ==
  \/ InFlight(p)
  \/ \E i \in 1..Len(ioDone) : ioDone[i].req.kind = "promise" /\ ioDone[i].req.p = p
  \/ Completed(p)

\* C8: in multipleNonBlockingSequential a read starts only after the read
\* before it has ended and its data has come back; in
\* multipleNonBlockingParallel the three reads have all started before any of
\* them ends, and the sizes are printed as File 1, File 2, File 3, each the
\* size of the file at that place in the array, in whatever order the reads end
C8_SequentialAndParallel ==
  /\ Started("p119") => PGet(promises, "p116").state = "fulfilled"
  /\ Started("p122") => PGet(promises, "p119").state = "fulfilled"
  /\ InOrder(<<114, 117, 120, 123, 125>>)
  /\ \A p \in {"p140", "p141", "p142"} :
       Completed(p) => Started("p140") /\ Started("p141") /\ Started("p142")
  /\ InOrder(<<136, 145, 146, 147, 149>>)
  /\ PrintedWith(145, [of |-> [content |-> "./package.json"], prop |-> "length"])
  /\ PrintedWith(146, [of |-> [content |-> "./tsconfig.json"], prop |-> "length"])
  /\ PrintedWith(147, [of |-> [content |-> "./README.md"], prop |-> "length"])

C8_Witness == Printed(145) /\ Printed(146) /\ Printed(147)

----------------------------------------------------------------------------
(* The stream script: writeWithBackpressure *)

\* How many chunks the data has at most, how many bytes a chunk, and how
\* large the highWaterMark of the writable is at most.
MaxChunks == 4

MaxChunkLen == 2

MaxHighWaterMark == 3

\* the machine of the other scripts has nothing to run
Idle ==
  /\ stack = <<>> /\ tickQ = <<>> /\ microQ = <<>> /\ timers = <<>>
  /\ immQ = <<>> /\ immNow = <<>> /\ ioPending = <<>> /\ ioDone = <<>>
  /\ promises = <<>> /\ now = 0 /\ ticks = 0 /\ phase = "main"
  /\ phaseNow = 0 /\ inMicro = FALSE

\* writeWithBackpressure(writable, data) is called: i = 0 and write() starts
\* with ok = true.  data holds the length of each chunk; the writable has
\* nothing buffered and no chunk in its _write (current is <<>>).
InitBP ==
  /\ Idle
  /\ out = <<>>
  /\ \E n \in 0..MaxChunks, h \in 1..MaxHighWaterMark :
       \E data \in [1..n -> 1..MaxChunkLen] :
         objects =
           [writer |-> [data |-> data, i |-> 0, ok |-> TRUE, pc |-> "loop"],
            writable |-> [highWaterMark |-> h, length |-> 0, needDrain |-> FALSE,
                          current |-> <<>>, buffered |-> <<>>, onDrain |-> 0,
                          events |-> <<>>]]

\* one turn of the while loop of write(): the next chunk goes to
\* writable.write, which counts its length, answers whether the buffer is
\* still below the highWaterMark, and hands the chunk to _write or, while a
\* chunk is in _write, buffers it; the answer for the last chunk is not kept
LoopWrite_IgnoresOk ==
  /\ objects.writer.pc = "loop"
  /\ objects.writer.i < Len(objects.writer.data)
  /\ LET w == objects.writable
         k == objects.writer.i + 1
         last == (k = Len(objects.writer.data))
         ret == (w.length + objects.writer.data[k] < w.highWaterMark)
         chunk == [chunk |-> k, size |-> objects.writer.data[k], cb |-> last]
     IN  objects' =
           [objects EXCEPT
              !.writer.i = k,
              !.writer.ok = IF last THEN @ ELSE ret,
              !.writable.length = @ + chunk.size,
              !.writable.needDrain = @ \/ ~ret,
              !.writable.current = IF @ = <<>> THEN <<chunk>> ELSE @,
              !.writable.buffered = IF w.current = <<>> THEN @ ELSE Append(@, chunk),
              !.writable.events = Append(@, [e |-> "write", chunk |-> k, ret |-> ret])]
  /\ UNCHANGED <<stack, tickQ, microQ, timers, immQ, immNow, ioPending, ioDone,
                 promises, out, now, ticks, phase, phaseNow, inMicro>>

LoopWrite ==
  /\ objects.writer.pc = "loop"
  /\ objects.writer.i < Len(objects.writer.data) /\ objects.writer.ok
  /\ LET w == objects.writable
         k == objects.writer.i + 1
         last == (k = Len(objects.writer.data))
         ret == (w.length + objects.writer.data[k] < w.highWaterMark)
         chunk == [chunk |-> k, size |-> objects.writer.data[k], cb |-> last]
     IN  objects' =
           [objects EXCEPT
              !.writer.i = k,
              !.writer.ok = IF last THEN @ ELSE ret,
              !.writable.length = @ + chunk.size,
              !.writable.needDrain = @ \/ ~ret,
              !.writable.current = IF @ = <<>> THEN <<chunk>> ELSE @,
              !.writable.buffered = IF w.current = <<>> THEN @ ELSE Append(@, chunk),
              !.writable.events = Append(@, [e |-> "write", chunk |-> k, ret |-> ret])]
  /\ UNCHANGED <<stack, tickQ, microQ, timers, immQ, immNow, ioPending, ioDone,
                 promises, out, now, ticks, phase, phaseNow, inMicro>>

\* the while loop ends: with chunks left, write() waits for one 'drain'
LoopExit ==
  /\ objects.writer.pc = "loop"
  /\ ~(objects.writer.i < Len(objects.writer.data) /\ objects.writer.ok)
  /\ objects' =
       [objects EXCEPT
          !.writer.pc = "idle",
          !.writable.onDrain =
             IF objects.writer.i < Len(objects.writer.data) THEN @ + 1 ELSE @]
  /\ UNCHANGED <<stack, tickQ, microQ, timers, immQ, immNow, ioPending, ioDone,
                 promises, out, now, ticks, phase, phaseNow, inMicro>>

\* the timer of slowWriter's write() fires: it prints the chunk and calls
\* back.  The writable takes the chunk off its length and hands the next
\* buffered chunk to _write; if a write() answered false and the buffer is
\* now empty it emits 'drain', which runs write() again; then the chunk's own
\* callback runs
WriteDone ==
  /\ objects.writer.pc = "idle"
  /\ objects.writable.current # <<>>
  /\ LET w == objects.writable
         c == w.current[1]
         drain == w.needDrain /\ w.length - c.size = 0
     IN  /\ objects' =
               [objects EXCEPT
                  !.writable.length = @ - c.size,
                  !.writable.current =
                     IF w.buffered = <<>> THEN <<>> ELSE <<Head(w.buffered)>>,
                  !.writable.buffered = IF @ = <<>> THEN @ ELSE Tail(@),
                  !.writable.needDrain = IF drain THEN FALSE ELSE @,
                  !.writable.events = IF drain THEN Append(@, [e |-> "drain"]) ELSE @,
                  !.writable.onDrain = IF drain THEN 0 ELSE @,
                  !.writer.ok = IF drain /\ w.onDrain > 0 THEN TRUE ELSE @,
                  !.writer.pc = IF drain /\ w.onDrain > 0 THEN "loop" ELSE @]
         /\ out' = out
                   \o << [line |-> 217, msg |-> "Slow write:", to |-> "stdout",
                          val |-> <<c.chunk>>] >>
                   \o (IF c.cb
                         THEN << [line |-> 196, msg |-> "Last chunk written",
                                  to |-> "stdout", val |-> <<>>] >>
                         ELSE <<>>)
  /\ UNCHANGED <<stack, tickQ, microQ, timers, immQ, immNow, ioPending, ioDone,
                 promises, now, ticks, phase, phaseNow, inMicro>>

NextBP == LoopWrite \/ LoopExit \/ WriteDone

SpecBP == InitBP /\ [][NextBP]_vars

\* the calls of writable.write and the 'drain' events, in the order they happen
Events == objects.writable.events

\* C9: writeWithBackpressure respects backpressure: once a write() has
\* answered false with chunks left, no write() follows before the writable
\* has emitted 'drain'; the chunks are written one by one in the order of
\* the data, each once, so that writing resumes at the first chunk not yet
\* written; and the writer is never left waiting with chunks to write and
\* nothing in the writable
C9_Backpressure ==
  /\ \A a, b \in 1..Len(Events) :
       (a < b /\ Events[a].e = "write" /\ Events[b].e = "write" /\ ~Events[a].ret)
         => \E c \in (a + 1)..(b - 1) : Events[c].e = "drain"
  /\ \A b \in 1..Len(Events) :
       Events[b].e = "write" =>
         Events[b].chunk = 1 + Cardinality({a \in 1..(b - 1) : Events[a].e = "write"})
  /\ objects.writable.onDrain <= 1
  /\ (objects.writer.pc = "idle" /\ objects.writable.current = <<>>)
       => objects.writer.i = Len(objects.writer.data)

C9_Witness ==
  \E a, c, b \in 1..Len(Events) :
    /\ a < c /\ c < b
    /\ Events[a].e = "write" /\ ~Events[a].ret
    /\ Events[c].e = "drain"
    /\ Events[b].e = "write" /\ Events[b].chunk = Events[a].chunk + 1

----------------------------------------------------------------------------
(* The stream script: compressFile *)

\* the streams of the pipeline, in order
Stages == <<"read", "gzip", "write">>

\* compressFile(inputPath, outputPath) is called: the three streams are open,
\* none has passed a chunk on, and the input has n chunks
InitPipeline ==
  /\ Idle
  /\ out = <<>>
  /\ \E n \in 0..MaxChunks :
       objects = [pipeline |-> [n |-> n,
                                passed |-> [k \in 1..Len(Stages) |-> 0],
                                state |-> [k \in 1..Len(Stages) |-> "open"],
                                error |-> "null",
                                called |-> 0]]

\* what stage k may still take: the chunks of the input, or the chunks the
\* stage before it has passed on
Upstream(k) ==
  IF k = 1 THEN objects.pipeline.n ELSE objects.pipeline.passed[k - 1]

\* a stream passes a chunk on
StageData ==
  /\ \E k \in 1..Len(Stages) :
       /\ objects.pipeline.state[k] = "open"
       /\ objects.pipeline.passed[k] < Upstream(k)
       /\ objects' = [objects EXCEPT !.pipeline.passed[k] = @ + 1]
  /\ UNCHANGED <<stack, tickQ, microQ, timers, immQ, immNow, ioPending, ioDone,
                 promises, out, now, ticks, phase, phaseNow, inMicro>>

\* a stream ends: it has passed on all there is and the stream before it has
\* ended
StageFinish ==
  /\ \E k \in 1..Len(Stages) :
       /\ objects.pipeline.state[k] = "open"
       /\ objects.pipeline.passed[k] = Upstream(k)
       /\ k > 1 => objects.pipeline.state[k - 1] = "finished"
       /\ objects' = [objects EXCEPT !.pipeline.state[k] = "finished"]
  /\ UNCHANGED <<stack, tickQ, microQ, timers, immQ, immNow, ioPending, ioDone,
                 promises, out, now, ticks, phase, phaseNow, inMicro>>

\* a stream fails: pipeline keeps the error and destroys the streams that are
\* still open
StageFail ==
  /\ \E k \in 1..Len(Stages) :
       /\ objects.pipeline.state[k] = "open"
       /\ objects' =
            [objects EXCEPT
               !.pipeline.state =
                  [j \in 1..Len(Stages) |->
                     IF j = k THEN "failed"
                     ELSE IF @[j] = "open" THEN "destroyed" ELSE @[j]],
               !.pipeline.error = IF @ = "null" THEN Stages[k] ELSE @]
  /\ UNCHANGED <<stack, tickQ, microQ, timers, immQ, immNow, ioPending, ioDone,
                 promises, out, now, ticks, phase, phaseNow, inMicro>>

\* every stream has ended or is destroyed: pipeline calls the callback, once,
\* with the error it kept; the callback prints the failure or the success
PipelineCallback_Inverted ==
  /\ objects.pipeline.called = 0
  /\ \A k \in 1..Len(Stages) : objects.pipeline.state[k] # "open"
  /\ objects' = [objects EXCEPT !.pipeline.called = @ + 1]
  /\ out' = Append(out,
                   IF objects.pipeline.error = "null"
                     THEN [line |-> 235, msg |-> "Pipeline failed:", to |-> "stderr",
                           val |-> <<objects.pipeline.error>>]
                     ELSE [line |-> 237, msg |-> "File compressed successfully",
                           to |-> "stdout", val |-> <<>>])
  /\ UNCHANGED <<stack, tickQ, microQ, timers, immQ, immNow, ioPending, ioDone,
                 promises, now, ticks, phase, phaseNow, inMicro>>

PipelineCallback ==
  /\ objects.pipeline.called = 0
  /\ \A k \in 1..Len(Stages) : objects.pipeline.state[k] # "open"
  /\ objects' = [objects EXCEPT !.pipeline.called = @ + 1]
  /\ out' = Append(out,
                   IF objects.pipeline.error # "null"
                     THEN [line |-> 235, msg |-> "Pipeline failed:", to |-> "stderr",
                           val |-> <<objects.pipeline.error>>]
                     ELSE [line |-> 237, msg |-> "File compressed successfully",
                           to |-> "stdout", val |-> <<>>])
  /\ UNCHANGED <<stack, tickQ, microQ, timers, immQ, immNow, ioPending, ioDone,
                 promises, now, ticks, phase, phaseNow, inMicro>>

NextPipeline == StageData \/ StageFinish \/ StageFail \/ PipelineCallback

SpecPipeline == InitPipeline /\ [][NextPipeline]_vars

\* the stream at place k of the pipeline is in state st
StageIs(k, st) == objects.pipeline.state[k] = st

\* C10: the callback of compressFile's pipeline prints one line at most, and
\* has printed exactly one once pipeline has called it: "Pipeline failed:"
\* with the error if one of the three streams failed, and "File compressed
\* successfully" only with all three streams finished and every chunk of the
\* input passed through them; with a failed stream it never prints the success
C10_PipelineCallbackOnce ==
  /\ Len(out) <= 1
  /\ Len(out) = objects.pipeline.called
  /\ Printed(235) <=> (objects.pipeline.called = 1
                       /\ \E k \in 1..Len(Stages) : StageIs(k, "failed"))
  /\ Printed(235) =>
       /\ out[1].to = "stderr"
       /\ \E k \in 1..Len(Stages) : StageIs(k, "failed") /\ out[1].val = <<Stages[k]>>
  /\ Printed(237) =>
       \A k \in 1..Len(Stages) :
         StageIs(k, "finished") /\ objects.pipeline.passed[k] = objects.pipeline.n
  /\ (\E k \in 1..Len(Stages) : StageIs(k, "failed")) => ~Printed(237)

C10_Witness ==
  /\ Printed(235)
  /\ \E k \in 1..Len(Stages) : StageIs(k, "finished")
  /\ objects.pipeline.n > 0

----------------------------------------------------------------------------
(* The closure script *)

\* How many calls a run makes on the counters, the memoized function or the
\* handlers, how many counters it creates, and the largest argument of the
\* memoized function.
MaxCalls == 4

MaxCounters == 2

MaxArg == 2

\* the handlers a createHandlers function makes: i < 3
HandlerCount == 3

\* the arguments of the memoized function
Args == 0..MaxArg

expensiveCalculation(n) == n * n

\* one part of the script runs: the counters, none created yet; a function
\* memoized from expensiveCalculation, or from a fn that returns the same but
\* throws for the n in throws, its cache empty; or a createHandlers function,
\* with var or with let, at the start of its loop, i = 0 in the first
\* binding of i
InitClosure ==
  /\ Idle
  /\ out = <<>>
  /\ \/ objects = [demo |-> "counter", count |-> <<>>, calls |-> <<>>]
     \/ \E throws \in SUBSET Args :
          objects = [demo |-> "memoized", throws |-> throws, cache |-> <<>>,
                     calls |-> <<>>]
     \/ \E decl \in {"var", "let"} :
          objects = [demo |-> "handlers", decl |-> decl, i |-> <<0>>,
                     handlers |-> <<>>, returned |-> FALSE, calls |-> <<>>]

\* another call may be made
MayCall(demo) == objects.demo = demo /\ Len(objects.calls) < MaxCalls

UnchangedMachine ==
  UNCHANGED <<stack, tickQ, microQ, timers, immQ, immNow, ioPending, ioDone,
              promises, now, ticks, phase, phaseNow, inMicro>>

\* createCounter(): a new count, 0, and the three methods that close over it
createCounter ==
  /\ objects.demo = "counter"
  /\ Len(objects.count) < MaxCounters
  /\ objects' = [objects EXCEPT !.count = Append(@, 0)]
  /\ UNCHANGED out
  /\ UnchangedMachine

\* count++; return count
increment_ReturnsOld ==
  /\ MayCall("counter")
  /\ \E k \in 1..Len(objects.count) :
       objects' = [objects EXCEPT
                     !.count[k] = @ + 1,
                     !.calls = Append(@, [op |-> "increment", on |-> k,
                                          ret |-> objects.count[k]])]
  /\ UNCHANGED out
  /\ UnchangedMachine

increment ==
  /\ MayCall("counter")
  /\ \E k \in 1..Len(objects.count) :
       objects' = [objects EXCEPT
                     !.count[k] = @ + 1,
                     !.calls = Append(@, [op |-> "increment", on |-> k,
                                          ret |-> objects.count[k] + 1])]
  /\ UNCHANGED out
  /\ UnchangedMachine

\* count--; return count
decrement ==
  /\ MayCall("counter")
  /\ \E k \in 1..Len(objects.count) :
       objects' = [objects EXCEPT
                     !.count[k] = @ - 1,
                     !.calls = Append(@, [op |-> "decrement", on |-> k,
                                          ret |-> objects.count[k] - 1])]
  /\ UNCHANGED out
  /\ UnchangedMachine

\* return count
getCount ==
  /\ MayCall("counter")
  /\ \E k \in 1..Len(objects.count) :
       objects' = [objects EXCEPT
                     !.calls = Append(@, [op |-> "getCount", on |-> k,
                                          ret |-> objects.count[k]])]
  /\ UNCHANGED out
  /\ UnchangedMachine

\* the function createMemoizedFunction(fn) returns, called with arg: a cache
\* hit prints and returns what the cache holds; otherwise it prints, calls
\* fn(arg), stores what fn returned and returns it; when fn throws the call
\* throws (ret is empty) and nothing is stored
memoized_NoCacheSet ==
  /\ MayCall("memoized")
  /\ \E arg \in Args :
       IF arg \in DOMAIN objects.cache
         THEN /\ out' = Append(out, [line |-> 163, msg |-> "Cache hit for",
                                     to |-> "stdout", val |-> <<arg>>])
              /\ objects' = [objects EXCEPT
                               !.calls = Append(@, [op |-> "memoized", on |-> arg,
                                                    invoked |-> FALSE,
                                                    ret |-> <<objects.cache[arg]>>])]
         ELSE /\ out' = Append(out, [line |-> 167, msg |-> "Computing for",
                                     to |-> "stdout", val |-> <<arg>>])
              /\ objects' =
                   IF arg \in objects.throws
                     THEN [objects EXCEPT
                             !.calls = Append(@, [op |-> "memoized", on |-> arg,
                                                  invoked |-> TRUE, ret |-> <<>>])]
                     ELSE [objects EXCEPT
                             !.cache = @,
                             !.calls = Append(@, [op |-> "memoized", on |-> arg,
                                                  invoked |-> TRUE,
                                                  ret |-> <<expensiveCalculation(arg)>>])]
  /\ UnchangedMachine

memoized ==
  /\ MayCall("memoized")
  /\ \E arg \in Args :
       IF arg \in DOMAIN objects.cache
         THEN /\ out' = Append(out, [line |-> 163, msg |-> "Cache hit for",
                                     to |-> "stdout", val |-> <<arg>>])
              /\ objects' = [objects EXCEPT
                               !.calls = Append(@, [op |-> "memoized", on |-> arg,
                                                    invoked |-> FALSE,
                                                    ret |-> <<objects.cache[arg]>>])]
         ELSE /\ out' = Append(out, [line |-> 167, msg |-> "Computing for",
                                     to |-> "stdout", val |-> <<arg>>])
              /\ objects' =
                   IF arg \in objects.throws
                     THEN [objects EXCEPT
                             !.calls = Append(@, [op |-> "memoized", on |-> arg,
                                                  invoked |-> TRUE, ret |-> <<>>])]
                     ELSE [objects EXCEPT
                             !.cache = (arg :> expensiveCalculation(arg)) @@ @,
                             !.calls = Append(@, [op |-> "memoized", on |-> arg,
                                                  invoked |-> TRUE,
                                                  ret |-> <<expensiveCalculation(arg)>>])]
  /\ UnchangedMachine

\* one turn of the loop of createHandlersWrong, for (var i = 0; i < 3; i++):
\* the handler closes over the one binding of i; after the loop the handlers
\* are returned
createHandlersWrong ==
  /\ objects.demo = "handlers" /\ objects.decl = "var" /\ ~objects.returned
  /\ objects' =
       IF objects.i[1] < HandlerCount
         THEN [objects EXCEPT !.handlers = Append(@, 1), !.i[1] = @ + 1]
         ELSE [objects EXCEPT !.returned = TRUE]
  /\ UNCHANGED out
  /\ UnchangedMachine

\* one turn of the loop of createHandlersCorrect, for (let i = 0; i < 3; i++):
\* the handler closes over the binding of i of this turn, and the next turn
\* gets a binding of its own, which starts from this one plus 1
createHandlersCorrect_Var ==
  /\ objects.demo = "handlers" /\ objects.decl = "let" /\ ~objects.returned
  /\ objects' =
       IF objects.i[1] < HandlerCount
         THEN [objects EXCEPT !.handlers = Append(@, 1), !.i[1] = @ + 1]
         ELSE [objects EXCEPT !.returned = TRUE]
  /\ UNCHANGED out
  /\ UnchangedMachine

createHandlersCorrect ==
  /\ objects.demo = "handlers" /\ objects.decl = "let" /\ ~objects.returned
  /\ objects' =
       IF objects.i[Len(objects.i)] < HandlerCount
         THEN [objects EXCEPT
                 !.handlers = Append(@, Len(objects.i)),
                 !.i = Append(@, objects.i[Len(objects.i)] + 1)]
         ELSE [objects EXCEPT !.returned = TRUE]
  /\ UNCHANGED out
  /\ UnchangedMachine

\* handlers[k](): console.log(i), with the binding of i the handler closed over
handler ==
  /\ MayCall("handlers")
  /\ objects.returned
  /\ \E k \in 1..Len(objects.handlers) :
       /\ out' = Append(out, [line |-> IF objects.decl = "var" THEN 119 ELSE 140,
                              msg |-> "", to |-> "stdout",
                              val |-> <<objects.i[objects.handlers[k]]>>])
       /\ objects' = [objects EXCEPT
                        !.calls = Append(@, [op |-> "handler", on |-> k])]
  /\ UnchangedMachine

NextClosure ==
  \/ createCounter \/ increment \/ decrement \/ getCount
  \/ memoized
  \/ createHandlersWrong \/ createHandlersCorrect \/ handler

SpecClosure == InitClosure /\ [][NextClosure]_vars

\* the calls made so far, in order
Calls == objects.calls

\* how many of the calls so far were op on the object or argument on
Count(op, on) ==
  Cardinality({j \in 1..Len(Calls) : Calls[j].op = op /\ Calls[j].on = on})

\* C11: for the counters createCounter returns, after any calls of
\* increment, decrement and getCount: a counter's count is the number of its
\* increments minus the number of its decrements, whatever was called on
\* another counter; the last call, which was any of the three, returned the
\* count as it now is, so that increment and decrement return the new count
\* and getCount returns the count and leaves it
C11_CounterCounts ==
  objects.demo = "counter" =>
    /\ \A k \in 1..Len(objects.count) :
         objects.count[k] = Count("increment", k) - Count("decrement", k)
    /\ Calls # <<>> =>
         Calls[Len(Calls)].ret = objects.count[Calls[Len(Calls)].on]

C11_Witness ==
  /\ objects.demo = "counter"
  /\ Len(objects.count) = 2
  /\ objects.count[1] = 1 /\ objects.count[2] = -1
  /\ Calls[Len(Calls)].op = "getCount"

\* the calls of the memoized function so far that called fn(arg), and those
\* of them in which fn returned
Invoked(arg) ==
  {j \in 1..Len(Calls) : Calls[j].on = arg /\ Calls[j].invoked}

Computed(arg) == {j \in Invoked(arg) : Calls[j].ret # <<>>}

\* C12 as claimed: the wrapped fn is called at most once for each argument
C12_AtMostOncePerArgument ==
  objects.demo = "memoized" => \A arg \in Args : Cardinality(Invoked(arg)) <= 1

\* C12: fn returns at most once for each argument: a call prints "Computing
\* for" and calls fn(arg) when no earlier call with the same argument had fn
\* return, and prints "Cache hit for" without calling fn when one had; every
\* call whose fn call returned or was not needed returns what fn returns for
\* the argument, and a call in which fn throws throws and stores nothing
C12_AtMostOneResultPerArgument ==
  objects.demo = "memoized" =>
    /\ \A arg \in Args : Cardinality(Computed(arg)) <= 1
    /\ Len(out) = Len(Calls)
    /\ \A j \in 1..Len(Calls) :
         LET hit == \E h \in Computed(Calls[j].on) : h < j
         IN  /\ out[j].val = <<Calls[j].on>>
             /\ out[j].line = IF hit THEN 163 ELSE 167
             /\ Calls[j].invoked = ~hit
             /\ Calls[j].ret = IF ~hit /\ Calls[j].on \in objects.throws
                                 THEN <<>>
                                 ELSE <<expensiveCalculation(Calls[j].on)>>

C12_Witness ==
  /\ objects.demo = "memoized"
  /\ \E j, h \in 1..Len(Calls) :
       /\ h < j
       /\ Calls[h].on = Calls[j].on
       /\ Calls[h].invoked /\ ~Calls[j].invoked
       /\ Calls[j].ret = <<expensiveCalculation(Calls[j].on)>>

\* C13: a handler made in the loop with var prints 3, the value the one
\* binding it shares has after the loop, whatever its index; handler k made
\* in the loop with let prints k (0, 1, 2), the value of its own binding
C13_HandlersPrint ==
  objects.demo = "handlers" =>
    /\ objects.returned => Len(objects.handlers) = HandlerCount
    /\ Len(out) = Len(Calls)
    /\ \A j \in 1..Len(Calls) :
         out[j].val = <<IF objects.decl = "var" THEN 3 ELSE Calls[j].on - 1>>

C13_Witness ==
  /\ objects.demo = "handlers"
  /\ objects.decl = "let"
  /\ \E j \in 1..Len(Calls) : Calls[j].on = 3 /\ out[j].val = <<2>>
  /\ \E j \in 1..Len(Calls) : Calls[j].on = 1 /\ out[j].val = <<0>>

----------------------------------------------------------------------------
(* The neverthrow script *)

\* The largest number divide is given, in absolute value, and how many
\* results Result.combine is given at most.
MaxNum == 2

MaxResults == 3

\* the two variants of a Result
ok(value) == [variant |-> "Ok", value |-> value]

err(error) == [variant |-> "Err", error |-> error]

isOk(result) == result.variant = "Ok"

isErr(result) == result.variant = "Err"

unwrapOr(result, defaultValue) == IF isOk(result) THEN result.value ELSE defaultValue

\* a / b is kept as the fraction it is
divide_ChecksA(a, b) ==
  IF a = 0 THEN err("Division by zero") ELSE ok([num |-> a, den |-> b])

divide(a, b) ==
  IF b = 0 THEN err("Division by zero") ELSE ok([num |-> a, den |-> b])

findUser(id) ==
  IF id = 1 THEN ok([id |-> 1, name |-> "Alice", age |-> 30])
  ELSE err("User not found")

checkAge_Over18(user) ==
  IF user.age > 18 THEN ok(user) ELSE err("User is under 18")

checkAge(user) ==
  IF user.age >= 18 THEN ok(user) ELSE err("User is under 18")

\* the error mapper of fetchUser, on what the promise was rejected with: a
\* thrown value is a TypeError, another Error, an object with or without a
\* status, or a value that is no object (null, a string)
errorMapper_AnyError(error) ==
  IF error.type \in {"TypeError", "SyntaxError", "AbortError"}
    THEN [type |-> "network", message |-> error.message]
  ELSE IF error.type # "primitive" /\ "status" \in DOMAIN error
    THEN [type |-> "http", status |-> error.status]
  ELSE [type |-> "parse", message |-> error.string]

errorMapper(error) ==
  IF error.type = "TypeError"
    THEN [type |-> "network", message |-> error.message]
  ELSE IF error.type # "primitive" /\ "status" \in DOMAIN error
    THEN [type |-> "http", status |-> error.status]
  ELSE [type |-> "parse", message |-> error.string]

\* Result.combine(results): the values of all, in order, or the first error
combine_Reversed(results) ==
  IF \E i \in 1..Len(results) : isErr(results[i])
    THEN results[CHOOSE i \in 1..Len(results) :
                   /\ isErr(results[i])
                   /\ \A j \in 1..(i - 1) : isOk(results[j])]
    ELSE ok([i \in 1..Len(results) |-> results[Len(results) + 1 - i].value])

combine(results) ==
  IF \E i \in 1..Len(results) : isErr(results[i])
    THEN results[CHOOSE i \in 1..Len(results) :
                   /\ isErr(results[i])
                   /\ \A j \in 1..(i - 1) : isOk(results[j])]
    ELSE ok([i \in 1..Len(results) |-> results[i].value])

\* what fetch or res.json() may reject with
Rejections ==
  { [type |-> "TypeError", message |-> "fetch failed",
     string |-> "TypeError: fetch failed"],
    [type |-> "AbortError", message |-> "This operation was aborted",
     string |-> "AbortError: This operation was aborted"] }

JsonRejections ==
  Rejections
  \cup { [type |-> "SyntaxError", message |-> "Unexpected token",
          string |-> "SyntaxError: Unexpected token"] }

\* one part of the script runs: divide(a, b), then unwrapOr(d) on its result;
\* the chain on findUser(id), or the rest of the chain on a user of any age;
\* fetchUser(id); or Result.combine on a list of results, of which
\* [ok(1), ok(2), ok(3)] is one
InitResult ==
  /\ Idle
  /\ out = <<>>
  /\ \/ \E a, b, d \in (-MaxNum)..MaxNum :
          objects = [demo |-> "divide", a |-> a, b |-> b, d |-> d, pc |-> "divide"]
     \/ \E id \in 0..MaxArg :
          objects = [demo |-> "chain", id |-> id, pc |-> "findUser", invoked |-> <<>>]
     \/ \E age \in {17, 18} :
          objects = [demo |-> "chain", pc |-> "andThen", invoked |-> <<>>,
                     first |-> ok([id |-> 2, name |-> "Bob", age |-> age]),
                     result |-> ok([id |-> 2, name |-> "Bob", age |-> age])]
     \/ \E id \in 0..MaxArg :
          objects = [demo |-> "fetchUser", id |-> id, pc |-> "fetch"]
     \/ \E n \in 0..MaxResults :
          \E results \in [1..n -> {ok(1), ok(2), ok(3), err("failed"), err("other")}] :
            objects = [demo |-> "combine", results |-> results, pc |-> "combine"]

At2(demo, pc) == objects.demo = demo /\ objects.pc = pc

\* const result = divide(a, b)
callDivide ==
  /\ At2("divide", "divide")
  /\ objects' = [result |-> divide(objects.a, objects.b)]
                @@ [objects EXCEPT !.pc = "unwrapOr"]
  /\ UNCHANGED out
  /\ UnchangedMachine

\* console.log(result.unwrapOr(d))
logUnwrapOr ==
  /\ At2("divide", "unwrapOr")
  /\ out' = Append(out, [line |-> 445, msg |-> "", to |-> "stdout",
                         val |-> <<unwrapOr(objects.result, objects.d)>>])
  /\ objects' = [objects EXCEPT !.pc = "done"]
  /\ UnchangedMachine

\* findUser(id)
callFindUser ==
  /\ At2("chain", "findUser")
  /\ objects' = [first |-> findUser(objects.id), result |-> findUser(objects.id)]
                @@ [objects EXCEPT !.pc = "andThen", !.invoked = Append(@, "findUser")]
  /\ UNCHANGED out
  /\ UnchangedMachine

\* .andThen(checkAge): checkAge is called with the value of an Ok, and its
\* result is the result; an Err stays as it is
andThenCheckAge ==
  /\ At2("chain", "andThen")
  /\ objects' =
       IF isOk(objects.result)
         THEN [objects EXCEPT !.pc = "map",
                              !.invoked = Append(@, "checkAge"),
                              !.result = checkAge(objects.result.value)]
         ELSE [objects EXCEPT !.pc = "map"]
  /\ UNCHANGED out
  /\ UnchangedMachine

\* .map((user) => user.name): the function is called with the value of an Ok,
\* and the result is an Ok of what it returns; an Err stays as it is
mapUserName ==
  /\ At2("chain", "map")
  /\ objects' =
       IF isOk(objects.result)
         THEN [objects EXCEPT !.pc = "done",
                              !.invoked = Append(@, "map"),
                              !.result = ok(objects.result.value.name)]
         ELSE [objects EXCEPT !.pc = "done"]
  /\ UNCHANGED out
  /\ UnchangedMachine

\* the async function of fetchUser runs to its end: fetch rejects, or answers
\* with a status; a response that is not ok makes it throw { status }; else
\* res.json() rejects, or gives the user.  promise is what the function's
\* promise settles to.
fetchUser ==
  /\ At2("fetchUser", "fetch")
  /\ \E promise \in
          {[state |-> "rejected", value |-> e] : e \in Rejections}
          \cup {[state |-> "rejected",
                 value |-> [type |-> "object", status |-> st,
                            string |-> "[object Object]"]] : st \in {404, 500}}
          \cup {[state |-> "rejected", value |-> e] : e \in JsonRejections}
          \cup {[state |-> "fulfilled",
                 value |-> [id |-> objects.id, name |-> "Leanne Graham"]]} :
       objects' = [promise |-> promise] @@ [objects EXCEPT !.pc = "fromPromise"]
  /\ UNCHANGED out
  /\ UnchangedMachine

\* ResultAsync.fromPromise(promise, errorMapper): an Ok of what the promise
\* is fulfilled with, or an Err of what the mapper makes of the rejection
fromPromise ==
  /\ At2("fetchUser", "fromPromise")
  /\ objects' =
       [result |-> IF objects.promise.state = "fulfilled"
                     THEN ok(objects.promise.value)
                     ELSE err(errorMapper(objects.promise.value))]
       @@ [objects EXCEPT !.pc = "match"]
  /\ UNCHANGED out
  /\ UnchangedMachine

\* .map((user) => user.name).match(...): the name, or the line of the error type
matchUserName ==
  /\ At2("fetchUser", "match")
  /\ out' = Append(out,
       IF isOk(objects.result)
         THEN [line |-> 511, msg |-> "User name:", to |-> "stdout",
               val |-> <<objects.result.value.name>>]
       ELSE IF objects.result.error.type = "network"
         THEN [line |-> 515, msg |-> "Connection failed:", to |-> "stderr",
               val |-> <<objects.result.error.message>>]
       ELSE IF objects.result.error.type = "http"
         THEN [line |-> 518, msg |-> "HTTP error:", to |-> "stderr",
               val |-> <<objects.result.error.status>>]
       ELSE [line |-> 521, msg |-> "Parse error:", to |-> "stderr",
             val |-> <<objects.result.error.message>>])
  /\ objects' = [objects EXCEPT !.pc = "done"]
  /\ UnchangedMachine

\* const combined = Result.combine(results); combined.match(...)
combined ==
  /\ At2("combine", "combine")
  /\ objects' = [result |-> combine(objects.results)]
                @@ [objects EXCEPT !.pc = "done"]
  /\ out' = Append(out,
       IF isOk(combine(objects.results))
         THEN [line |-> 586, msg |-> "All succeeded:", to |-> "stdout",
               val |-> <<combine(objects.results).value>>]
         ELSE [line |-> 587, msg |-> "At least one failed:", to |-> "stdout",
               val |-> <<combine(objects.results).error>>])
  /\ UnchangedMachine

NextResult ==
  \/ callDivide \/ logUnwrapOr
  \/ callFindUser \/ andThenCheckAge \/ mapUserName
  \/ fetchUser \/ fromPromise \/ matchUserName
  \/ combined

SpecResult == InitResult /\ [][NextResult]_vars

\* C14: divide(a, b) returns a result and does not throw: the Err of
\* "Division by zero" exactly when b is 0, and else the Ok of a / b; the
\* result is one of Ok and Err and not both; unwrapOr(d) on divide(a, 0)
\* gives d, and on an Ok its value
C14_DivideNeverThrows ==
  (objects.demo = "divide" /\ objects.pc # "divide") =>
    /\ isOk(objects.result) # isErr(objects.result)
    /\ isErr(objects.result) <=> objects.b = 0
    /\ isErr(objects.result) => objects.result.error = "Division by zero"
    /\ isOk(objects.result) =>
         objects.result.value = [num |-> objects.a, den |-> objects.b]
    /\ objects.pc = "done" =>
         IF objects.b = 0 THEN out[1].val = <<objects.d>>
         ELSE out[1].val = <<[num |-> objects.a, den |-> objects.b]>>

C14_Witness ==
  /\ objects.demo = "divide" /\ objects.pc = "done"
  /\ objects.a = 1 /\ objects.b = 0 /\ objects.d = 2
  /\ out[1].val = <<2>>

\* C15: in the chain findUser(id).andThen(checkAge).map(user => user.name) a
\* step runs only if the steps before it succeeded: when findUser fails,
\* neither checkAge nor the map function is called and the result is the Err
\* "User not found"; when checkAge fails, for a user under 18, the map
\* function is not called and the result is the Err "User is under 18"; else
\* both are called, in this order, and the result is the Ok of the user's name
C15_ChainStopsAtFirstErr ==
  (objects.demo = "chain" /\ objects.pc = "done") =>
    LET rest == IF objects.invoked # <<>> /\ objects.invoked[1] = "findUser"
                  THEN Tail(objects.invoked) ELSE objects.invoked
    IN  /\ "id" \in DOMAIN objects =>
             (isOk(objects.first) <=> objects.id = 1)
        /\ IF isErr(objects.first)
             THEN rest = <<>> /\ objects.result = err("User not found")
           ELSE IF objects.first.value.age < 18
             THEN rest = <<"checkAge">> /\ objects.result = err("User is under 18")
           ELSE /\ rest = <<"checkAge", "map">>
                /\ objects.result = ok(objects.first.value.name)

C15_Witness ==
  /\ objects.demo = "chain" /\ objects.pc = "done"
  /\ objects.invoked = <<"findUser">>
  /\ objects.result = err("User not found")

\* C16: fetchUser(id) gives a result and neither rejects nor throws: an Ok
\* when the request succeeds, and for every failure the Err of one ApiError:
\* "network", with the message, when what was thrown is a TypeError; "http",
\* with the status of the response, when a response that is not ok made the
\* function throw an object with a status; "parse" for anything else
C16_FetchUserNeverRejects ==
  (objects.demo = "fetchUser" /\ objects.pc \in {"match", "done"}) =>
    LET thrown == objects.promise.value
    IN  /\ isOk(objects.result) # isErr(objects.result)
        /\ isOk(objects.result) <=> objects.promise.state = "fulfilled"
        /\ isErr(objects.result) =>
             objects.result.error =
               IF thrown.type = "TypeError"
                 THEN [type |-> "network", message |-> thrown.message]
               ELSE IF thrown.type = "object"
                 THEN [type |-> "http", status |-> thrown.status]
               ELSE [type |-> "parse", message |-> thrown.string]
        /\ objects.pc = "done" =>
             /\ Len(out) = 1
             /\ out[1].line = IF isOk(objects.result) THEN 511
                              ELSE IF thrown.type = "TypeError" THEN 515
                              ELSE IF thrown.type = "object" THEN 518
                              ELSE 521

C16_Witness ==
  /\ objects.demo = "fetchUser" /\ objects.pc = "done"
  /\ objects.promise.state = "rejected"
  /\ objects.promise.value.type = "SyntaxError"
  /\ out[1].line = 521

\* C17: Result.combine on a list of results gives the Ok of the list of all
\* the values, in the order of the results, when every result is an Ok, and
\* the Err of a result that is an Err when one is: if any fails, the whole
\* thing fails
C17_CombineAllOrErr ==
  (objects.demo = "combine" /\ objects.pc = "done") =>
    LET rs == objects.results
    IN  /\ isOk(objects.result) <=> \A i \in 1..Len(rs) : isOk(rs[i])
        /\ isOk(objects.result) =>
             /\ Len(objects.result.value) = Len(rs)
             /\ \A i \in 1..Len(rs) : objects.result.value[i] = rs[i].value
        /\ isErr(objects.result) =>
             \E i \in 1..Len(rs) : isErr(rs[i]) /\ objects.result = rs[i]
        /\ out[1].line = 586 <=> isOk(objects.result)

C17_Witness ==
  /\ objects.demo = "combine" /\ objects.pc = "done"
  /\ objects.results = <<ok(1), ok(2), err("failed")>>
  /\ objects.result = err("failed")

----------------------------------------------------------------------------
(* The currying notes *)

\* How many times a run calls a curried function or one of the functions it
\* returned.
MaxApplications == 4

add(a, b, c) == a + b + c

sum(a, b) == a + b

add3(a, b, c) == a + b + c

\* the innermost function of addCurried, with the a and b it closed over
addCurried(args) == args[1] + args[2] + args[3]

\* the innermost function of buildURL: `${protocol}://${domain}/${path}`
buildURL_Swapped(args) == args[2] \o "://" \o args[1] \o "/" \o args[3]

buildURL(args) == args[1] \o "://" \o args[2] \o "/" \o args[3]

\* the innermost functions of curry2(fn) and curry3(fn)
curry2(fn(_, _), args) == fn(args[1], args[2])

curry3(fn(_, _, _), args) == fn(args[1], args[2], args[3])

\* the arguments a function takes at place n
ArgsAt(fn, n) ==
  IF fn # "buildURL" THEN 0..MaxArg
  ELSE IF n = 1 THEN {"https", "http"}
  ELSE IF n = 2 THEN {"google.com", "github.com"}
  ELSE {"search", "maps"}

\* the script has one curried function: addCurried, buildURL, curry2(sum) or
\* curry3(add3); closures are the functions got from it so far, each with
\* the arguments it holds, and results what the innermost functions returned
InitCurry ==
  /\ Idle
  /\ out = <<>>
  /\ \E fn \in {"addCurried", "buildURL", "curry2(sum)", "curry3(add3)"} :
       objects = [demo |-> "curry", closures |-> <<[fn |-> fn, args |-> <<>>]>>,
                  results |-> <<>>, applications |-> 0]

\* f(x), for f the curried function or a function got from it: with the last
\* argument the innermost function runs, and before that a new function is
\* made that holds the arguments of f and x; f stays as it is
callCurried ==
  /\ objects.demo = "curry"
  /\ objects.applications < MaxApplications
  /\ \E k \in 1..Len(objects.closures) :
       LET f == objects.closures[k]
           arity == IF f.fn = "curry2(sum)" THEN 2 ELSE 3
       IN  \E x \in ArgsAt(f.fn, Len(f.args) + 1) :
             LET args == Append(f.args, x)
             IN  objects' =
                   IF Len(args) < arity
                     THEN [objects EXCEPT
                             !.applications = @ + 1,
                             !.closures = Append(@, [fn |-> f.fn, args |-> args])]
                     ELSE [objects EXCEPT
                             !.applications = @ + 1,
                             !.results = Append(@,
                                [fn |-> f.fn, args |-> args,
                                 value |-> IF f.fn = "addCurried" THEN addCurried(args)
                                           ELSE IF f.fn = "buildURL" THEN buildURL(args)
                                           ELSE IF f.fn = "curry2(sum)"
                                             THEN curry2(sum, args)
                                           ELSE curry3(add3, args)])]
  /\ UNCHANGED out
  /\ UnchangedMachine

NextCurry == callCurried

SpecCurry == InitCurry /\ [][NextCurry]_vars

\* C18: currying keeps the result of the function: addCurried(a)(b)(c) is
\* add(a, b, c), curry2(fn)(a)(b) is fn(a, b) and curry3(fn)(a)(b)(c) is
\* fn(a, b, c); a function that holds some of the arguments can be used any
\* number of times, and each use gives the result for the arguments it holds
\* and the one it is given, whatever other uses there were:
\* httpsGoogle("search") is "https://google.com/search" with or without
\* httpsGoogle("maps") or httpsGithub
C18_CurryingKeepsResult ==
  objects.demo = "curry" =>
    /\ objects.closures[1].args = <<>>
    /\ \A i \in 1..Len(objects.results) :
         LET r == objects.results[i]
         IN  /\ r.fn = "addCurried" => r.value = add(r.args[1], r.args[2], r.args[3])
             /\ r.fn = "curry2(sum)" => r.value = sum(r.args[1], r.args[2])
             /\ r.fn = "curry3(add3)" => r.value = add3(r.args[1], r.args[2], r.args[3])
             /\ r.fn = "buildURL" =>
                  /\ r.value = r.args[1] \o "://" \o r.args[2] \o "/" \o r.args[3]
                  /\ r.args = <<"https", "google.com", "search">>
                       => r.value = "https://google.com/search"

C18_Witness ==
  /\ objects.demo = "curry"
  /\ objects.closures[1].fn = "buildURL"
  /\ Len(objects.results) = 2
  /\ objects.results[1].value = "https://google.com/maps"
  /\ objects.results[2].value = "https://google.com/search"

----------------------------------------------------------------------------
(* The script on this: bind, call and apply *)

\* The largest argument multiply is given.
MaxFactor == 4

\* multiply, called with this and the list of its arguments:
\* a * b * c * (this.multiplier || 1)
multiply(this, args) ==
  args[1] * args[2] * args[3] * (IF this.multiplier # 0 THEN this.multiplier ELSE 1)

\* the script starts with a calculator and three arguments; 10 and 2, 3, 4
\* are those of the script
InitThis ==
  /\ Idle
  /\ out = <<>>
  /\ \E m \in {0, 1, 10}, a, b, c \in 1..MaxFactor :
       objects = [demo |-> "this", pc |-> "call", calculator |-> [multiplier |-> m],
                  a |-> a, b |-> b, c |-> c, invocations |-> 0]

\* const result1 = multiply.call(calculator, a, b, c): multiply runs now,
\* with calculator as this and the arguments as they are
callMultiply ==
  /\ At2("this", "call")
  /\ objects' = [result1 |-> multiply(objects.calculator,
                                      <<objects.a, objects.b, objects.c>>)]
                @@ [objects EXCEPT !.pc = "apply", !.invocations = @ + 1]
  /\ UNCHANGED out
  /\ UnchangedMachine

\* const result2 = multiply.apply(calculator, [a, b, c]): multiply runs now,
\* with calculator as this and the elements of the array as its arguments
applyMultiply ==
  /\ At2("this", "apply")
  /\ LET array == <<objects.a, objects.b, objects.c>>
     IN  objects' = [result2 |-> multiply(objects.calculator,
                                          [i \in 1..Len(array) |-> array[i]])]
                    @@ [objects EXCEPT !.pc = "bind", !.invocations = @ + 1]
  /\ UNCHANGED out
  /\ UnchangedMachine

\* const boundMultiply = multiply.bind(calculator, a): a new function that
\* keeps calculator and a; multiply does not run
bindMultiply_Invokes ==
  /\ At2("this", "bind")
  /\ objects' = [boundMultiply |-> [target |-> "multiply",
                                    boundThis |-> objects.calculator,
                                    boundArgs |-> <<objects.a>>]]
                @@ [objects EXCEPT !.pc = "bound", !.invocations = @ + 1]
  /\ UNCHANGED out
  /\ UnchangedMachine

bindMultiply ==
  /\ At2("this", "bind")
  /\ objects' = [boundMultiply |-> [target |-> "multiply",
                                    boundThis |-> objects.calculator,
                                    boundArgs |-> <<objects.a>>]]
                @@ [objects EXCEPT !.pc = "bound"]
  /\ UNCHANGED out
  /\ UnchangedMachine

\* const result3 = boundMultiply(b, c): multiply runs with the this the
\* bound function keeps and with its arguments before those of the call;
\* then console.log({ result1, result2, result3 })
callBound ==
  /\ At2("this", "bound")
  /\ LET f == objects.boundMultiply
         result3 == multiply(f.boundThis, f.boundArgs \o <<objects.b, objects.c>>)
     IN  /\ objects' = [result3 |-> result3]
                       @@ [objects EXCEPT !.pc = "done", !.invocations = @ + 1]
         /\ out' = Append(out, [line |-> 119, msg |-> "", to |-> "stdout",
                                val |-> <<[result1 |-> objects.result1,
                                           result2 |-> objects.result2,
                                           result3 |-> result3]>>])
  /\ UnchangedMachine

NextThis == callMultiply \/ applyMultiply \/ bindMultiply \/ callBound

SpecThis == InitThis /\ [][NextThis]_vars

\* C19: for the same this and the same arguments, multiply.call(calc, a, b,
\* c), multiply.apply(calc, [a, b, c]) and multiply.bind(calc, a)(b, c)
\* return the same value, a * b * c times the multiplier, 240 for the
\* multiplier 10 and the arguments 2, 3, 4; bind does not run multiply,
\* which runs when the bound function is called
C19_CallApplyBindAgree ==
  objects.demo = "this" =>
    /\ objects.invocations = IF objects.pc = "call" THEN 0
                             ELSE IF objects.pc = "apply" THEN 1
                             ELSE IF objects.pc \in {"bind", "bound"} THEN 2
                             ELSE 3
    /\ objects.pc = "done" =>
         /\ objects.result1 = objects.result2
         /\ objects.result2 = objects.result3
         /\ objects.calculator.multiplier # 0 =>
              objects.result3 = objects.a * objects.b * objects.c
                                * objects.calculator.multiplier
         /\ out[1].val = <<[result1 |-> objects.result1, result2 |-> objects.result1,
                            result3 |-> objects.result1]>>
         /\ (objects.calculator.multiplier = 10 /\ objects.a = 2
             /\ objects.b = 3 /\ objects.c = 4) => objects.result3 = 240

C19_Witness ==
  /\ objects.demo = "this" /\ objects.pc = "done"
  /\ objects.calculator.multiplier = 10
  /\ objects.a = 2 /\ objects.b = 3 /\ objects.c = 4
  /\ objects.result1 = 240 /\ objects.result2 = 240 /\ objects.result3 = 240

----------------------------------------------------------------------------
(* The stream script: NumberStream *)

\* The largest max a NumberStream is made with, and how many chunks the
\* Readable buffers before it stops calling _read.
MaxMax == 11

MaxBuffered == 2

\* String(n), for n >= 0: the decimal digits of n
RECURSIVE String(_)
String(n) ==
  IF n < 10
    THEN <<"0", "1", "2", "3", "4", "5", "6", "7", "8", "9">>[n + 1]
    ELSE String(n \div 10)
         \o <<"0", "1", "2", "3", "4", "5", "6", "7", "8", "9">>[(n % 10) + 1]

\* const numbers = new NumberStream(max), with its 'data' listener
InitNumbers ==
  /\ Idle
  /\ out = <<>>
  /\ \E max \in (-1)..MaxMax :
       objects = [demo |-> "numbers", max |-> max, current |-> 1, buffer |-> <<>>,
                  ended |-> FALSE, events |-> <<>>]

\* the Readable calls _read() while the stream has not ended and its buffer
\* has room: the stream pushes the next number as a string, or null for the end
_read_Exclusive ==
  /\ objects.demo = "numbers"
  /\ ~objects.ended
  /\ Len(objects.buffer) < MaxBuffered
  /\ objects' =
       IF objects.current < objects.max
         THEN [objects EXCEPT !.buffer = Append(@, String(objects.current)),
                              !.current = @ + 1]
         ELSE [objects EXCEPT !.ended = TRUE]
  /\ UNCHANGED out
  /\ UnchangedMachine

_read ==
  /\ objects.demo = "numbers"
  /\ ~objects.ended
  /\ Len(objects.buffer) < MaxBuffered
  /\ objects' =
       IF objects.current <= objects.max
         THEN [objects EXCEPT !.buffer = Append(@, String(objects.current)),
                              !.current = @ + 1]
         ELSE [objects EXCEPT !.ended = TRUE]
  /\ UNCHANGED out
  /\ UnchangedMachine

\* the Readable emits 'data' with the first chunk of its buffer, and the
\* listener prints it
data ==
  /\ objects.demo = "numbers"
  /\ objects.buffer # <<>>
  /\ out' = Append(out, [line |-> 67, msg |-> "Number:", to |-> "stdout",
                         val |-> <<Head(objects.buffer)>>])
  /\ objects' = [objects EXCEPT
                   !.buffer = Tail(@),
                   !.events = Append(@, [e |-> "data", chunk |-> Head(objects.buffer)])]
  /\ UnchangedMachine

\* the Readable emits 'end', once, after null was pushed and the buffer is empty
end ==
  /\ objects.demo = "numbers"
  /\ objects.ended /\ objects.buffer = <<>>
  /\ \A i \in 1..Len(objects.events) : objects.events[i].e # "end"
  /\ objects' = [objects EXCEPT !.events = Append(@, [e |-> "end"])]
  /\ UNCHANGED out
  /\ UnchangedMachine

NextNumbers == _read \/ data \/ end

SpecNumbers == InitNumbers /\ [][NextNumbers]_vars

\* C20: a NumberStream made with max emits the numbers 1, 2, ..., max as
\* chunks, in ascending order and each once, then the end of the stream, and
\* nothing after the end; with max < 1 it ends with no number emitted
C20_NumbersInOrderThenEnd ==
  objects.demo = "numbers" =>
    LET ev == objects.events
        n == Cardinality({i \in 1..Len(ev) : ev[i].e = "data"})
    IN  /\ \A i \in 1..Len(ev) :
             IF i <= n THEN ev[i].e = "data" /\ ev[i].chunk = String(i)
             ELSE ev[i].e = "end" /\ i = Len(ev)
        /\ n <= (IF objects.max < 1 THEN 0 ELSE objects.max)
        /\ Len(ev) > n => n = (IF objects.max < 1 THEN 0 ELSE objects.max)
        /\ Len(out) = n
        /\ \A i \in 1..n : out[i].val = <<ev[i].chunk>>
        /\ (objects.max = 11 /\ n = 11) => ev[11].chunk = "11" /\ ev[9].chunk = "9"

C20_Witness ==
  /\ objects.demo = "numbers"
  /\ objects.max = 5
  /\ Len(objects.events) = 6
  /\ objects.events[5] = [e |-> "data", chunk |-> "5"]
  /\ objects.events[6].e = "end"

----------------------------------------------------------------------------
(* The closure script: createRateLimiter *)

\* The largest maxCalls and windowMs a limiter is made with (beside the 3 and
\* 1000 of the script), how many calls a run makes on the limited function,
\* and how many times the clock moves between them.
MaxLimit == 3

MaxWindow == 2

MaxLimited == 5

MaxAdvances == 3

\* while (calls.length > 0 && calls[0] < now - windowMs) calls.shift(),
\* with the end of the window taken as part of the old calls
RECURSIVE RemoveOldCalls_Inclusive(_, _, _)
RemoveOldCalls_Inclusive(calls, t, windowMs) ==
  IF Len(calls) > 0 /\ calls[1] <= t - windowMs
    THEN RemoveOldCalls_Inclusive(Tail(calls), t, windowMs)
    ELSE calls

RECURSIVE RemoveOldCalls(_, _, _)
RemoveOldCalls(calls, t, windowMs) ==
  IF Len(calls) > 0 /\ calls[1] < t - windowMs
    THEN RemoveOldCalls(Tail(calls), t, windowMs)
    ELSE calls

\* const limiter = createRateLimiter(maxCalls, windowMs);
\* const limitedLog = limiter(console.log): no call let through yet, the
\* clock of Date.now() at 0
InitLimiter ==
  /\ Idle
  /\ out = <<>>
  /\ \E maxCalls \in 0..MaxLimit, windowMs \in (0..MaxWindow) \cup {1000} :
       objects = [demo |-> "limiter", maxCalls |-> maxCalls,
                  windowMs |-> windowMs, calls |-> <<>>, clock |-> 0,
                  advances |-> 0, log |-> <<>>]

\* time passes between two calls: a millisecond, or the length of the window
DateAdvance ==
  /\ objects.demo = "limiter"
  /\ objects.advances < MaxAdvances
  /\ \E d \in {1, objects.windowMs} \ {0} :
       objects' = [objects EXCEPT !.clock = @ + d, !.advances = @ + 1]
  /\ UNCHANGED out
  /\ UnchangedMachine

\* limitedLog("Call n"), n the number of the call: the old calls are removed;
\* with room left the time is pushed and console.log is called (it prints and
\* returns undefined), otherwise 'Rate limit exceeded!' is printed and null
\* returned
limitedLog ==
  /\ objects.demo = "limiter"
  /\ Len(objects.log) < MaxLimited
  /\ LET t == objects.clock
         n == Len(objects.log) + 1
         calls == RemoveOldCalls(objects.calls, t, objects.windowMs)
     IN  IF Len(calls) < objects.maxCalls
           THEN /\ objects' = [objects EXCEPT
                                 !.calls = Append(calls, t),
                                 !.log = Append(@, [at |-> t, through |-> TRUE,
                                                    ret |-> "undefined"])]
                /\ out' = Append(out, [line |-> 234, msg |-> "Call",
                                       to |-> "stdout", val |-> <<n>>])
           ELSE /\ objects' = [objects EXCEPT
                                 !.calls = calls,
                                 !.log = Append(@, [at |-> t, through |-> FALSE,
                                                    ret |-> "null"])]
                /\ out' = Append(out, [line |-> 236, msg |-> "Rate limit exceeded!",
                                       to |-> "stdout", val |-> <<>>])
  /\ UnchangedMachine

NextLimiter == DateAdvance \/ limitedLog

SpecLimiter == InitLimiter /\ [][NextLimiter]_vars

\* the calls before call i that were let through and lie within the last
\* windowMs at the time of call i
Recent(i) ==
  {j \in 1..(i - 1) : /\ objects.log[j].through
                      /\ objects.log[j].at >= objects.log[i].at - objects.windowMs}

\* C21: of the calls made on a limiter at non-decreasing times, at most
\* maxCalls are let through within any window of length windowMs (a window
\* that holds calls let through holds them still when it is moved to start at
\* the first of them, so the windows that start at a call let through are
\* counted); a call is rejected, printing 'Rate limit exceeded!' and
\* returning null, exactly when maxCalls calls let through lie within the last
\* windowMs, and is let through otherwise, so as soon as the oldest of them
\* is more than windowMs old
C21_RateLimited ==
  objects.demo = "limiter" =>
    LET log == objects.log
    IN  /\ Len(out) = Len(log)
        /\ \A i \in 1..Len(log) :
             /\ log[i].through =>
                  Cardinality({j \in 1..Len(log) :
                                 /\ log[j].through
                                 /\ log[i].at <= log[j].at
                                 /\ log[j].at <= log[i].at + objects.windowMs})
                    <= objects.maxCalls
             /\ IF Cardinality(Recent(i)) >= objects.maxCalls
                  THEN /\ ~log[i].through
                       /\ log[i].ret = "null"
                       /\ out[i].line = 236
                       /\ out[i].msg = "Rate limit exceeded!"
                  ELSE /\ log[i].through
                       /\ out[i].line = 234
                       /\ out[i].val = <<i>>

\* the limiter of the script, 3 calls in 1000 ms: four immediate calls, the
\* fourth rejected, and a fifth let through 1001 ms after the first
C21_Witness ==
  /\ objects.demo = "limiter"
  /\ objects.maxCalls = 3 /\ objects.windowMs = 1000
  /\ Len(objects.log) = 5
  /\ \A i \in 1..4 : objects.log[i].at = 0
  /\ objects.log[3].through /\ ~objects.log[4].through
  /\ objects.log[5].at = 1001 /\ objects.log[5].through

----------------------------------------------------------------------------
(* The stream script: a Readable whose read() pushes all its chunks at once, *)
(* read by a 'data' listener (section 1) and by for await (section 11)       *)

\* How many chunks read() pushes before it pushes null.
MaxPushes == 3

\* the chunk lists of read(): those within the bound and the one of section 1
PushLists ==
  UNION {[1..n -> {"A", "B", "C"}] : n \in 0..MaxPushes} \cup {<<"Hello ", "World!">>}

\* howMuchToRead(n, state) for read() called without a size, counted in
\* buffered chunks: a flowing stream gives one buffer at a time, a paused one
\* all it holds
howMuchToRead(flowing, buffer) ==
  IF buffer = <<>> THEN 0
  ELSE IF flowing THEN 1
  ELSE Len(buffer)

\* fromList(n, state): the first n buffers, joined
RECURSIVE fromList(_, _)
fromList(n, buffer) ==
  IF n = 0 THEN "" ELSE buffer[1] \o fromList(n - 1, Tail(buffer))

\* readable.read(): unless the stream has ended, the read() of the options is
\* called first and pushes its chunks and null into the buffer; what
\* howMuchToRead says is taken from the buffer and returned (ret is empty for
\* null); once the buffer of an ended stream is empty, 'end' is due
read(o) ==
  LET buffer == IF o.ended THEN o.buffer ELSE o.buffer \o o.pushes
      n == howMuchToRead(o.mode = "flowing", buffer)
  IN  [o EXCEPT !.buffer = SubSeq(buffer, n + 1, Len(buffer)),
                !.ended = TRUE,
                !.ret = IF n > 0 THEN <<fromList(n, buffer)>> ELSE <<>>,
                !.endDue = (n = Len(buffer))]

\* new Readable({ read() { ... } }), with a 'data' and an 'end' listener, or
\* iterated by for await
InitReadable ==
  /\ Idle
  /\ out = <<>>
  /\ \E mode \in {"flowing", "iterator"}, pushes \in PushLists :
       objects = [demo |-> "readable", mode |-> mode, pushes |-> pushes,
                  buffer |-> <<>>, ended |-> FALSE, ret |-> <<>>,
                  endDue |-> FALSE, endEmitted |-> FALSE, pc |-> "read"]

\* a flowing stream reads while read() returns a chunk, and emits 'data' with
\* each: the listener prints it
flow ==
  /\ At2("readable", "read")
  /\ objects.mode = "flowing"
  /\ LET o == read(objects)
     IN  IF o.ret # <<>>
           THEN /\ objects' = o
                /\ out' = Append(out, [line |-> 17, msg |-> "Received:",
                                       to |-> "stdout", val |-> o.ret])
           ELSE /\ objects' = [o EXCEPT !.pc = "done"]
                /\ UNCHANGED out
  /\ UnchangedMachine

\* for await asks for the next chunk: the iterator calls stream.read(); a
\* chunk is given to the body of the loop, null ends the loop
iteratorNext ==
  /\ At2("readable", "read")
  /\ objects.mode = "iterator"
  /\ LET o == read(objects)
     IN  objects' = [o EXCEPT !.pc = IF o.ret # <<>> THEN "body" ELSE "return"]
  /\ UNCHANGED out
  /\ UnchangedMachine

\* console.log("Async chunk:", chunk.toString())
loopBody ==
  /\ At2("readable", "body")
  /\ out' = Append(out, [line |-> 289, msg |-> "Async chunk:", to |-> "stdout",
                         val |-> objects.ret])
  /\ objects' = [objects EXCEPT !.pc = "read"]
  /\ UnchangedMachine

\* the stream emits 'end', once: the 'end' listener of section 1 prints
emitEnd ==
  /\ objects.demo = "readable"
  /\ objects.endDue /\ ~objects.endEmitted
  /\ objects' = [objects EXCEPT !.endEmitted = TRUE]
  /\ out' = IF objects.mode = "flowing"
              THEN Append(out, [line |-> 21, msg |-> "Stream ended",
                                to |-> "stdout", val |-> <<>>])
              ELSE out
  /\ UnchangedMachine

\* the iterator returns when the stream has ended, and the function goes on:
\* console.log("Async iteration complete")
loopReturn ==
  /\ At2("readable", "return")
  /\ objects.endEmitted
  /\ out' = Append(out, [line |-> 292, msg |-> "Async iteration complete",
                         to |-> "stdout", val |-> <<>>])
  /\ objects' = [objects EXCEPT !.pc = "done"]
  /\ UnchangedMachine

NextReadable == flow \/ iteratorNext \/ loopBody \/ emitEnd \/ loopReturn

SpecReadable == InitReadable /\ [][NextReadable]_vars

\* C24: processStreamAsync logs one 'Async chunk:' line for each of 'A', 'B',
\* 'C', in this order, and then 'Async iteration complete' once
C24_OneLinePerChunk ==
  (/\ objects.demo = "readable"
   /\ objects.mode = "iterator"
   /\ objects.pushes = <<"A", "B", "C">>
   /\ objects.pc = "done")
    => /\ Len(out) = 4
       /\ \A i \in 1..3 :
            out[i].line = 289 /\ out[i].val = <<objects.pushes[i]>>
       /\ out[4].line = 292

====
